---- MODULE Spec2Model ----
(***************************************************************************)
(* The Agent session of src/src/lib/agent.ts as a state machine.           *)
(*                                                                         *)
(* The program is single threaded and event driven.  A step of the model   *)
(* is either a task (a socket event, the reconnect timer, the start of     *)
(* caller code), which runs only when the microtask queue is empty, or     *)
(* the job at the head of the microtask queue mq.  The jobs are the        *)
(* continuations the code's promises create: the resumption of             *)
(* _flushMessageQueue after `await this.send(message)`, the settlement of  *)
(* the promise returned by the async _performConnect, the resumption of    *)
(* connect() after `await this._connectionPromise`, and the caller's own   *)
(* continuations (the "user" job).                                         *)
(***************************************************************************)
EXTENDS Integers, Sequences, FiniteSets, TLC

\* ------------------------------------------------------------------ bounds
MaxSock == 2
MaxTimers == 2
MaxMsgs == 2
MaxFaults == 1
MaxRetries == 2
MaxEvents == 2
FlushMsgs == 5
MaxWrites == 4

\* ------------------------------------------------------- program constants
maxReconnectAttempts == 10
BaseDelay == 1000
MaxDelay == 30000
CleanCode == 1000
maxFramePayloadSize == 65535
HeaderSize == 10
version == 1
FlagFirst == 1
FlagLast == 2

Socks == 1..MaxSock
Handles == 1..MaxTimers
\* close codes an event can carry: clean, going away, no status, abnormal
PeerCodes == {1000, 1001}
NoStatusCode == 1005
AbnormalCode == 1006

VARIABLES
  ws,                   \* _ws: 0 (null) or the socket referenced
  reconnectAttempts,    \* _reconnectAttempts
  reconnectDelay,       \* _reconnectDelay
  reconnectTimer,       \* _reconnectTimer: 0 (null) or a timer handle
  manuallyDisconnected, \* _manuallyDisconnected
  connectionPromise,    \* _connectionPromise: 0 (null) or the attempt's promise
  messageQueue,         \* _messageQueue
  autoConnect,          \* autoConnect (constructor option)
  sock,                 \* the sockets the session created and that have not yet
                        \* reported their close, oldest first: state and close code
  prom,                 \* per attempt: the promise made in _performConnect
  timers,               \* pending setTimeout handles -> delay
  mq,                   \* the microtask queue
  batch,                \* _flushMessageQueue's local copy: messages not yet re-sent
  sent,                 \* messages handed to the transport, in order
  nextMsg,              \* number of messages submitted by the caller so far, plus 1
  faults,               \* transmission failures so far
  msgBudget,            \* messages the caller submits in this run
  faultBudget,          \* transmission failures the transport produces in this run
  reader,               \* _messageReader: the decoder's state
  nextMessageId,        \* _messageWriter.nextMessageId
  processingMessages,   \* _processingMessages
  onMessage,            \* onMessage: whether a handler is registered
  handling,             \* the inbound messages whose handler invocation is awaited
  blobs,                \* the blobs whose materialization is pending: event and bytes
  inb,                  \* the inbound history: events (message events so far), pushed
                        \* (the events in the order their bytes were pushed),
                        \* completed (the ids of the messages the decoder completed,
                        \* in order), delivered (the ids handed to the handler, in
                        \* order), dropped (the ids discarded by a decoder reset),
                        \* cut (the socket on which the peer stopped inside a frame),
                        \* binaryType (how the sockets hand over binary data),
                        \* failed (the ids whose handler call threw or rejected);
                        \* the record is kept in the runs where track is set, and
                        \* forms are the shapes of the chunks the peer sends
  evBudget,             \* message events the peer produces in this run
  input,                \* the message given to the encoder (codec runs)
  wire,                 \* the frames the encoder wrote for it, how many of them were
                        \* pushed into the decoder, and the messages polled from it
                        \* (codec runs)
  hist                  \* history the claims speak about: quiet (disconnect() was the
                        \* caller's last call), notOpen (messages accepted while not
                        \* Open), flushSet and flushMark (the latest flush's batch and
                        \* the first message submitted after it began), these four
                        \* recorded in the runs where on is set; lastDelay (of
                        \* the last reconnect scheduled since the last open),
                        \* joinDiffers (a joined connect() settled unlike its attempt),
                        \* flushFault (the message whose transmission failed in the
                        \* flush in progress), superseded (the pending reconnect
                        \* timer was scheduled in place of one that was cancelled,
                        \* recorded in the runs where timer is set), codec (the
                        \* run follows the encoder's counter)

vars == <<ws, reconnectAttempts, reconnectDelay, reconnectTimer, manuallyDisconnected,
          connectionPromise, messageQueue, autoConnect, sock, prom, timers, mq, batch,
          sent, nextMsg, faults, msgBudget, faultBudget, reader, nextMessageId,
          processingMessages, onMessage, handling, blobs, inb, evBudget, input, wire,
          hist>>

\* ------------------------------------------------------------ helpers
Min(a, b) == IF a < b THEN a ELSE b

RECURSIVE Pow2(_)
Pow2(n) == IF n <= 0 THEN 1 ELSE 2 * Pow2(n - 1)

Range(q) == {q[i] : i \in 1..Len(q)}

Job(k, p) == [k |-> k, p |-> p]

FreeSock == [st |-> "FREE", code |-> 0]
\* An attempt's promises: st is the promise made in _performConnect, adopted says
\* whether the promise the async _performConnect returned has settled, waiter
\* whether the caller awaits the connect() call that started the attempt, joinSt
\* where a caller's connect() call that found the attempt in flight stands, and
\* primary the outcome the starting call settled with, kept for the joined call.
FreeProm == [st |-> "none", adopted |-> FALSE, waiter |-> FALSE, joinSt |-> "none",
             primary |-> "none"]

\* WebSocket.readyState as the code reads it
ReadyState(k) ==
  CASE k.st = "CONNECTING" -> "CONNECTING"
    [] k.st = "OPEN" -> "OPEN"
    [] k.st \in {"CLOSING", "ABORTING"} -> "CLOSING"
    [] OTHER -> "CLOSED"

\* The state the operations transform, as one record.
Cur ==
  [ws |-> ws, reconnectAttempts |-> reconnectAttempts, reconnectDelay |-> reconnectDelay,
   reconnectTimer |-> reconnectTimer, manuallyDisconnected |-> manuallyDisconnected,
   connectionPromise |-> connectionPromise, messageQueue |-> messageQueue,
   autoConnect |-> autoConnect, sock |-> sock, prom |-> prom, timers |-> timers,
   mq |-> mq, batch |-> batch, sent |-> sent, faults |-> faults, hist |-> hist,
   reader |-> reader, nextMessageId |-> nextMessageId,
   processingMessages |-> processingMessages, onMessage |-> onMessage,
   handling |-> handling, blobs |-> blobs, inb |-> inb,
   overflow |-> FALSE]

Commit(s) ==
  /\ ~s.overflow
  /\ ws' = s.ws
  /\ reconnectAttempts' = s.reconnectAttempts
  /\ reconnectDelay' = s.reconnectDelay
  /\ reconnectTimer' = s.reconnectTimer
  /\ manuallyDisconnected' = s.manuallyDisconnected
  /\ connectionPromise' = s.connectionPromise
  /\ messageQueue' = s.messageQueue
  /\ autoConnect' = s.autoConnect
  /\ sock' = s.sock
  /\ prom' = s.prom
  /\ timers' = s.timers
  /\ mq' = s.mq
  /\ batch' = s.batch
  /\ sent' = s.sent
  /\ faults' = s.faults
  /\ hist' = s.hist
  /\ reader' = s.reader
  /\ nextMessageId' = s.nextMessageId
  /\ processingMessages' = s.processingMessages
  /\ onMessage' = s.onMessage
  /\ handling' = s.handling
  /\ blobs' = s.blobs
  /\ inb' = s.inb
  /\ UNCHANGED <<msgBudget, faultBudget, evBudget, input, wire>>

\* ------------------------------------------------------------ the codec
\* Bytes are the numbers 0..255, a frame or a chunk a sequence of bytes.
\* Payload values are named by their JSON text; "absent" is undefined.
\* A string of n - 2 letters: n bytes of JSON text with its quotes.
LongText(n) == <<34>> \o [i \in 1..(n - 2) |-> 97] \o <<34>>

\* The long strings, named by the length of their JSON text.
LongLen(v) ==
  CASE v = "s600" -> 600
    [] v = "s1100" -> 1100
    [] v = "s65534" -> 65534
    [] v = "s65535" -> 65535
    [] v = "s65536" -> 65536
    [] v = "s131070" -> 131070
    [] v = "s131071" -> 131071
    [] v = "s150000" -> 150000

Longs == {"s600", "s1100", "s65534", "s65535", "s65536", "s131070", "s131071", "s150000"}

JsonText(v) ==
  CASE v \in Longs -> LongText(LongLen(v))
    [] v = "null" -> <<110, 117, 108, 108>>
    [] v = "0" -> <<48>>
    [] v = "false" -> <<102, 97, 108, 115, 101>>
    [] v = "empty" -> <<34, 34>>
    [] v = "1" -> <<49>>
    [] v = "true" -> <<116, 114, 117, 101>>
    [] v = "str" -> <<34, 97, 34>>
    [] v = "obj" -> <<123, 125>>

Values == {"null", "0", "false", "empty", "1", "true", "str", "obj"}

\* JavaScript's !payload
Falsy(v) == v \in {"absent", "null", "0", "false", "empty"}

\* JSON.parse(new TextDecoder().decode(bytes)): "error" stands for the SyntaxError
JsonParse(bytes) ==
  IF \E v \in Longs : LongLen(v) = Len(bytes) /\ JsonText(v) = bytes
  THEN CHOOSE v \in Longs : LongLen(v) = Len(bytes) /\ JsonText(v) = bytes
  ELSE IF Len(bytes) <= 5 /\ \E v \in Values : JsonText(v) = bytes
  THEN CHOOSE v \in Values : JsonText(v) = bytes
  ELSE "error"

\* MessageWriter._encodePayload
encodePayload(payload) ==
  IF Falsy(payload) THEN <<>> ELSE JsonText(payload)

\* (x >>> shift) & 0xff for 0 <= x < 2^31
ByteAt(x, shift) == (x \div Pow2(shift)) % 256

\* MessageWriter._createFrame
createFrame(messageId, type, payload, flags) ==
  <<version,
    ByteAt(flags, 8), ByteAt(flags, 0),
    ByteAt(messageId, 24), ByteAt(messageId, 16), ByteAt(messageId, 8),
    ByteAt(messageId, 0),
    type % 256,
    ByteAt(Len(payload), 8), ByteAt(Len(payload), 0)>> \o payload

\* The loop of write with frames one byte short of the maximum.
RECURSIVE writeFramesShort(_, _, _, _)
writeFramesShort(id, type, payload, offset) ==
  IF offset >= Len(payload) THEN <<>>
  ELSE LET remaining == Len(payload) - offset
           framePayloadSize == Min(remaining, maxFramePayloadSize - 1)
           framePayload == SubSeq(payload, offset + 1, offset + framePayloadSize)
           isFirst == offset = 0
           isLast == offset + framePayloadSize >= Len(payload)
           flags == (IF isFirst THEN FlagFirst ELSE 0) + (IF isLast THEN FlagLast ELSE 0)
       IN <<createFrame(id, type, framePayload, flags)>>
            \o writeFramesShort(id, type, payload, offset + framePayloadSize)

\* The loop of write with > for >= in isLast.
RECURSIVE writeFramesNoLast(_, _, _, _)
writeFramesNoLast(id, type, payload, offset) ==
  IF offset >= Len(payload) THEN <<>>
  ELSE LET remaining == Len(payload) - offset
           framePayloadSize == Min(remaining, maxFramePayloadSize)
           framePayload == SubSeq(payload, offset + 1, offset + framePayloadSize)
           isFirst == offset = 0
           isLast == offset + framePayloadSize > Len(payload)
           flags == (IF isFirst THEN FlagFirst ELSE 0) + (IF isLast THEN FlagLast ELSE 0)
       IN <<createFrame(id, type, framePayload, flags)>>
            \o writeFramesNoLast(id, type, payload, offset + framePayloadSize)

\* The loop of MessageWriter.write for a payload longer than one frame's.
RECURSIVE writeFrames(_, _, _, _)
writeFrames(id, type, payload, offset) ==
  IF offset >= Len(payload) THEN <<>>
  ELSE LET remaining == Len(payload) - offset
           framePayloadSize == Min(remaining, maxFramePayloadSize)
           framePayload == SubSeq(payload, offset + 1, offset + framePayloadSize)
           isFirst == offset = 0
           isLast == offset + framePayloadSize >= Len(payload)
           flags == (IF isFirst THEN FlagFirst ELSE 0) + (IF isLast THEN FlagLast ELSE 0)
       IN <<createFrame(id, type, framePayload, flags)>>
            \o writeFrames(id, type, payload, offset + framePayloadSize)

\* write() taking the encoder's counter for an id of 0 as well ("||" for "??").
writeOrZero(next, message) ==
  LET own == message.hasId /\ message.id # 0
      id == IF own THEN message.id ELSE next
      payload == encodePayload(message.payload)
  IN [frames |-> IF Len(payload) <= maxFramePayloadSize
                 THEN <<createFrame(id, message.type, payload, FlagFirst + FlagLast)>>
                 ELSE writeFrames(id, message.type, payload, 0),
      nextMessageId |-> IF own THEN next ELSE next + 1]

\* MessageWriter.write(message) with the encoder's counter at next: the frames and
\* the counter afterwards.  A message is [hasId, id, type, payload].
write(next, message) ==
  LET id == IF message.hasId THEN message.id ELSE next
      payload == encodePayload(message.payload)
  IN [frames |-> IF Len(payload) <= maxFramePayloadSize
                 THEN <<createFrame(id, message.type, payload, FlagFirst + FlagLast)>>
                 ELSE writeFrames(id, message.type, payload, 0),
      nextMessageId |-> IF message.hasId THEN next ELSE next + 1]

\* The decoder: buffer is the valid region of _buffer (from _offset, _length
\* bytes), pending is _pendingMessages, messages is the ready-queue _messages.
NoPending == [i \in {} |-> 0]

FreshReader == [buffer |-> <<>>, pending |-> NoPending, messages |-> <<>>]

\* MessageReader._parseHeader; the message id is the signed 32-bit result of |
parseHeader(view) ==
  LET flags == view[2] * 256 + view[3]
  IN [version |-> view[1],
      flags |-> flags,
      messageId |-> (IF view[4] >= 128 THEN view[4] - 256 ELSE view[4]) * Pow2(24)
                      + view[5] * Pow2(16) + view[6] * 256 + view[7],
      typeCode |-> view[8],
      payloadLength |-> view[9] * 256 + view[10],
      isFirst |-> flags % 2 = 1,
      isLast |-> (flags \div 2) % 2 = 1]

\* MessageReader._handleMessage: threw says that JSON.parse raised
handleMessage(r, header, payload) ==
  IF header.version = 1
  THEN LET value == IF Len(payload) > 0 THEN JsonParse(payload) ELSE "absent"
       IN IF value = "error"
          THEN [r |-> r, threw |-> TRUE]
          ELSE [r |-> [r EXCEPT !.messages =
                          Append(@, [id |-> header.messageId, type |-> header.typeCode,
                                     payload |-> value])],
                threw |-> FALSE]
  ELSE [r |-> r, threw |-> FALSE]

RECURSIVE Concat(_)
Concat(frames) == IF frames = <<>> THEN <<>> ELSE Head(frames) \o Concat(Tail(frames))

\* _handleFrame taking a frame without First and without a pending entry for the
\* first frame of a message.
handleFrameAdopts(r, header, payload) ==
  LET known == header.isFirst \/ header.messageId \in DOMAIN r.pending
      entry == IF known /\ ~header.isFirst THEN r.pending[header.messageId]
               ELSE [type |-> header.typeCode, frames |-> <<>>, totalLength |-> 0]
      message == [entry EXCEPT !.frames = Append(@, payload),
                               !.totalLength = @ + Len(payload)]
  IN IF header.isFirst /\ header.isLast THEN handleMessage(r, header, payload)
     ELSE IF known /\ ~header.isFirst /\ entry.type # header.typeCode
     THEN [r |-> r, threw |-> FALSE]
     ELSE IF header.isLast
     THEN handleMessage(
            [r EXCEPT !.pending = [i \in DOMAIN @ \ {header.messageId} |-> @[i]]],
            header, Concat(message.frames))
     ELSE [r |-> [r EXCEPT !.pending =
                     [i \in DOMAIN @ \cup {header.messageId} |->
                        IF i = header.messageId THEN message ELSE @[i]]],
           threw |-> FALSE]

\* _handleFrame appending a continuation frame whatever its type code.
handleFrameAnyType(r, header, payload) ==
  IF header.isFirst
  THEN IF header.isLast
       THEN handleMessage(r, header, payload)
       ELSE [r |-> [r EXCEPT !.pending =
                       [i \in DOMAIN @ \cup {header.messageId} |->
                          IF i = header.messageId
                          THEN [type |-> header.typeCode, frames |-> <<payload>>,
                                totalLength |-> Len(payload)]
                          ELSE @[i]]],
             threw |-> FALSE]
  ELSE IF header.messageId \notin DOMAIN r.pending
       THEN [r |-> r, threw |-> FALSE]
       ELSE LET message == [r.pending[header.messageId] EXCEPT
                              !.frames = Append(@, payload),
                              !.totalLength = @ + Len(payload)]
            IN IF header.isLast
               THEN handleMessage(
                      [r EXCEPT !.pending = [i \in DOMAIN @ \ {header.messageId} |-> @[i]]],
                      header, Concat(message.frames))
               ELSE [r |-> [r EXCEPT !.pending[header.messageId] = message],
                     threw |-> FALSE]

\* MessageReader._handleFrame
handleFrame(r, header, payload) ==
  IF header.isFirst
  THEN IF header.isLast
       THEN handleMessage(r, header, payload)
       ELSE [r |-> [r EXCEPT !.pending =
                       [i \in DOMAIN @ \cup {header.messageId} |->
                          IF i = header.messageId
                          THEN [type |-> header.typeCode, frames |-> <<payload>>,
                                totalLength |-> Len(payload)]
                          ELSE @[i]]],
             threw |-> FALSE]
  ELSE IF header.messageId \notin DOMAIN r.pending
       THEN [r |-> r, threw |-> FALSE]
       ELSE IF r.pending[header.messageId].type # header.typeCode
       THEN [r |-> r, threw |-> FALSE]
       ELSE LET message == [r.pending[header.messageId] EXCEPT
                              !.frames = Append(@, payload),
                              !.totalLength = @ + Len(payload)]
            IN IF header.isLast
               THEN handleMessage(
                      [r EXCEPT !.pending = [i \in DOMAIN @ \ {header.messageId} |-> @[i]]],
                      header, Concat(message.frames))
               ELSE [r |-> [r EXCEPT !.pending[header.messageId] = message],
                     threw |-> FALSE]

\* MessageReader._processBuffer: a frame is taken off the buffer before it is
\* handled, and an exception of the handling leaves the loop.
RECURSIVE processBuffer(_)
processBuffer(r) ==
  IF Len(r.buffer) < HeaderSize THEN [r |-> r, threw |-> FALSE]
  ELSE LET header == parseHeader(r.buffer)
           frameSize == HeaderSize + header.payloadLength
       IN IF Len(r.buffer) < frameSize THEN [r |-> r, threw |-> FALSE]
          ELSE LET payload == SubSeq(r.buffer, HeaderSize + 1, frameSize)
                   rest == [r EXCEPT !.buffer = SubSeq(@, frameSize + 1, Len(@))]
                   done == handleFrame(rest, header, payload)
               IN IF done.threw THEN done ELSE processBuffer(done.r)

\* MessageReader.push(chunk)
push(r, chunk) == processBuffer([r EXCEPT !.buffer = @ \o chunk])

\* The decoder with its buffer as the code keeps it: buf is _buffer (with
\* whatever bytes lie outside the valid region), offset and length are _offset
\* and _length.
FreshRaw == [buf |-> <<>>, offset |-> 0, length |-> 0, pending |-> NoPending,
             messages |-> <<>>]

Max3(a, b, c) == IF a >= b /\ a >= c THEN a ELSE IF b >= c THEN b ELSE c

\* _compact setting the offset back without moving the unread bytes.
compactNoMove(r) == [r EXCEPT !.offset = 0]

\* MessageReader._compact
compact(r) ==
  IF r.offset = 0 THEN r
  ELSE [r EXCEPT !.buf = [i \in 1..Len(@) |->
                            IF i <= r.length THEN @[r.offset + i] ELSE @[i]],
                 !.offset = 0]

\* MessageReader._grow
grow(r, minCapacity) ==
  LET currentCapacity == Len(r.buf) - r.offset
      newCapacity == Max3(currentCapacity * 2, minCapacity, 1024)
  IN [r EXCEPT !.buf = [i \in 1..newCapacity |->
                          IF i <= r.length THEN @[r.offset + i] ELSE 0],
               !.offset = 0]

\* _processBuffer waiting for one byte more than the frame.
RECURSIVE processBufferRawWaits(_)
processBufferRawWaits(r) ==
  IF r.length < HeaderSize THEN [r |-> r, threw |-> FALSE]
  ELSE LET available == r.length
           view == SubSeq(r.buf, r.offset + 1, r.offset + available)
           header == parseHeader(view)
           frameSize == HeaderSize + header.payloadLength
       IN IF available <= frameSize THEN [r |-> r, threw |-> FALSE]
          ELSE LET payload == SubSeq(r.buf, r.offset + HeaderSize + 1, r.offset + frameSize)
                   rest == [r EXCEPT !.offset = @ + frameSize, !.length = @ - frameSize]
                   done == handleFrame(rest, header, payload)
               IN IF done.threw THEN done ELSE processBufferRawWaits(done.r)

\* MessageReader._processBuffer on that buffer
RECURSIVE processBufferRaw(_)
processBufferRaw(r) ==
  IF r.length < HeaderSize THEN [r |-> r, threw |-> FALSE]
  ELSE LET available == r.length
           view == SubSeq(r.buf, r.offset + 1, r.offset + available)
           header == parseHeader(view)
           frameSize == HeaderSize + header.payloadLength
       IN IF available < frameSize THEN [r |-> r, threw |-> FALSE]
          ELSE LET payload == SubSeq(r.buf, r.offset + HeaderSize + 1, r.offset + frameSize)
                   rest == [r EXCEPT !.offset = @ + frameSize, !.length = @ - frameSize]
                   done == handleFrame(rest, header, payload)
               IN IF done.threw THEN done ELSE processBufferRaw(done.r)

\* MessageReader.push(chunk) on that buffer, up to _processBuffer: over says that
\* the chunk does not fit where _buffer.set puts it, which raises a RangeError
\* before anything is written.
appendRaw(r, chunk) ==
  LET neededLength == r.length + Len(chunk)
      r1 == IF r.offset > 0 /\ 2 * r.offset > Len(r.buf) THEN compact(r) ELSE r
      r2 == IF neededLength > Len(r1.buf) - r1.offset THEN grow(r1, neededLength) ELSE r1
      at == r2.offset + r2.length
      over == at + Len(chunk) > Len(r2.buf)
  IN [r |-> IF over THEN r2
            ELSE [r2 EXCEPT !.buf = [i \in 1..Len(@) |->
                                       IF i > at /\ i <= at + Len(chunk) THEN chunk[i - at]
                                       ELSE @[i]],
                            !.length = @ + Len(chunk)],
      over |-> over]

\* MessageReader.push(chunk) on that buffer
pushRaw(r, chunk) ==
  LET a == appendRaw(r, chunk)
  IN IF a.over THEN [r |-> a.r, threw |-> TRUE] ELSE processBufferRaw(a.r)

\* The bytes buffered and not yet consumed
View(r) == SubSeq(r.buf, r.offset + 1, r.offset + r.length)

\* poll() yielding the newest message.
polledNewest(r) == IF r.messages = <<>> THEN "none" ELSE r.messages[Len(r.messages)]

\* MessageReader.poll(): the message, "none" when the ready-queue is empty
polled(r) == IF r.messages = <<>> THEN "none" ELSE Head(r.messages)

poll(r) == IF r.messages = <<>> THEN r ELSE [r EXCEPT !.messages = Tail(@)]

hasMessages(r) == r.messages # <<>>

\* ------------------------------------------------------------ the socket
\* WebSocket.close(code): a connecting socket is failed (it will report an error
\* and then close abnormally), an open one starts the closing handshake; a socket
\* already closing or closed is left alone.
wsClose(k, code) ==
  CASE k.st = "CONNECTING" -> [st |-> "ABORTING", code |-> AbnormalCode]
    [] k.st = "OPEN" -> [st |-> "CLOSING", code |-> code]
    [] OTHER -> k

FreeSocks(s) == {i \in Socks : s.sock[i].st = "FREE"}
NewSock(s) == CHOOSE i \in FreeSocks(s) : \A j \in FreeSocks(s) : i <= j

\* A closed socket leaves the session's table: the sockets created after it move
\* up one place, and so do the references to them.
Moved(r, i) == IF r > i THEN r - 1 ELSE r

released(s, i) ==
  [s EXCEPT !.sock = [j \in Socks |-> IF j < i THEN s.sock[j]
                                       ELSE IF j < MaxSock THEN s.sock[j + 1]
                                       ELSE FreeSock],
            !.prom = [j \in Socks |-> IF j < i THEN s.prom[j]
                                       ELSE IF j < MaxSock THEN s.prom[j + 1]
                                       ELSE FreeProm],
            !.ws = Moved(@, i),
            !.connectionPromise = Moved(@, i),
            !.inb.cut = IF @ = i THEN 0 ELSE Moved(@, i)]

FreeHandles(s) == {h \in Handles : s.timers[h] = 0}
NewHandle(s) == CHOOSE h \in FreeHandles(s) : \A j \in FreeHandles(s) : h <= j

\* get connected()
connected(s) == s.ws # 0 /\ ReadyState(s.sock[s.ws]) = "OPEN"

\* ------------------------------------------------------------ the Agent
clearReconnectTimer(s) ==
  IF s.reconnectTimer # 0
  THEN [s EXCEPT !.timers[s.reconnectTimer] = 0, !.reconnectTimer = 0,
                 !.hist.superseded = FALSE]
  ELSE s

\* Backoff with the exponent off by one, and without the cap.
BackoffOffByOne(base, attempts) == Min(base * Pow2(attempts), MaxDelay)

BackoffNoCap(base, attempts) == base * Pow2(attempts - 1)

Backoff(base, attempts) == Min(base * Pow2(attempts - 1), MaxDelay)

\* _attemptReconnect without the call of _clearReconnectTimer.
attemptReconnectNoClear(s) ==
  LET n == s.reconnectAttempts + 1
      delay == Backoff(s.reconnectDelay, n)
  IN IF FreeHandles(s) = {}
     THEN [s EXCEPT !.overflow = TRUE]
     ELSE [s EXCEPT !.reconnectAttempts = n,
                    !.timers[NewHandle(s)] = delay,
                    !.reconnectTimer = NewHandle(s),
                    !.hist.lastDelay = delay,
                    !.hist.superseded = FALSE]

attemptReconnect(s) ==
  LET s1 == clearReconnectTimer(s)
      n == s1.reconnectAttempts + 1
      delay == Backoff(s1.reconnectDelay, n)
  IN IF FreeHandles(s1) = {}
     THEN [s1 EXCEPT !.overflow = TRUE]
     ELSE [s1 EXCEPT !.reconnectAttempts = n,
                     !.timers[NewHandle(s1)] = delay,
                     !.reconnectTimer = NewHandle(s1),
                     !.hist.lastDelay = delay,
                     !.hist.superseded = (s.hist.timer /\ s.reconnectTimer # 0)]

\* _performConnect: the body of the promise executor, up to the handlers' set-up.
performConnect(s) ==
  LET s1 == IF s.ws # 0
            THEN [s EXCEPT !.sock[s.ws] =
                              IF ReadyState(@) \notin {"CLOSING", "CLOSED"}
                              THEN wsClose(@, NoStatusCode) ELSE @,
                           !.ws = 0]
            ELSE s
  IN IF FreeSocks(s1) = {}
     THEN [s1 EXCEPT !.overflow = TRUE]
     ELSE [s1 EXCEPT !.sock[NewSock(s1)] = [st |-> "CONNECTING", code |-> 0],
                     !.prom[NewSock(s1)] = [FreeProm EXCEPT !.st = "pending"],
                     !.ws = NewSock(s1)]

\* connect() without the check for an attempt in flight.
connectNoSingleFlight(s, who) ==
  IF connected(s) THEN s
  ELSE LET s1 == performConnect([s EXCEPT !.manuallyDisconnected = FALSE])
       IN IF s1.overflow THEN s1
          ELSE [s1 EXCEPT !.connectionPromise = s1.ws,
                          !.prom[s1.ws].waiter = (who = "user")]

\* connect(), called by who: "user", "send" (auto-connect) or "timer".  A caller
\* that awaits the outcome is resumed by a later job; only the user's is observed.
connect(s, who) ==
  IF connected(s) THEN s
  ELSE IF s.connectionPromise # 0
  THEN IF who = "user" /\ s.prom[s.connectionPromise].joinSt = "none"
       THEN [s EXCEPT !.prom[s.connectionPromise].joinSt = "queued",
                      !.mq = Append(@, Job("thenJob", s.connectionPromise))]
       ELSE s
  ELSE LET s1 == performConnect([s EXCEPT !.manuallyDisconnected = FALSE])
       IN IF s1.overflow THEN s1
          ELSE [s1 EXCEPT !.connectionPromise = s1.ws,
                          !.prom[s1.ws].waiter = (who = "user")]

\* disconnect() without the call of _clearReconnectTimer.
disconnectKeepsTimer(s) ==
  LET s1 == [s EXCEPT !.manuallyDisconnected = TRUE]
  IN IF s1.ws # 0
     THEN [s1 EXCEPT !.sock[s1.ws] =
                        IF ReadyState(@) \notin {"CLOSING", "CLOSED"}
                        THEN wsClose(@, CleanCode) ELSE @,
                     !.ws = 0]
     ELSE s1

disconnect(s) ==
  LET s1 == clearReconnectTimer([s EXCEPT !.manuallyDisconnected = TRUE])
  IN IF s1.ws # 0
     THEN [s1 EXCEPT !.sock[s1.ws] =
                        IF ReadyState(@) \notin {"CLOSING", "CLOSED"}
                        THEN wsClose(@, CleanCode) ELSE @,
                     !.ws = 0]
     ELSE s1

\* send() whose catch clause does not put the message back.
sendDropsOnFailure(s, m, fail) ==
  LET s1 == IF s.autoConnect /\ ~connected(s) THEN connect(s, "send") ELSE s
  IN IF ~connected(s1)
     THEN [s1 EXCEPT !.messageQueue = Append(@, m)]
     ELSE IF fail
          THEN [s1 EXCEPT !.faults = @ + 1]
          ELSE [s1 EXCEPT !.sent = Append(@, m)]

\* send() that calls connect() whatever the auto-connect option says.
sendAlwaysConnects(s, m, fail) ==
  LET s1 == IF ~connected(s) THEN connect(s, "send") ELSE s
  IN IF ~connected(s1)
     THEN [s1 EXCEPT !.messageQueue = Append(@, m)]
     ELSE IF fail
          THEN [s1 EXCEPT !.messageQueue = Append(@, m), !.faults = @ + 1]
          ELSE [s1 EXCEPT !.sent = Append(@, m)]

\* send() whose catch clause puts the message at the head of the queue.
sendPrependsOnFailure(s, m, fail) ==
  LET s1 == IF s.autoConnect /\ ~connected(s) THEN connect(s, "send") ELSE s
  IN IF ~connected(s1)
     THEN [s1 EXCEPT !.messageQueue = Append(@, m)]
     ELSE IF fail
          THEN [s1 EXCEPT !.messageQueue = <<m>> \o @, !.faults = @ + 1]
          ELSE [s1 EXCEPT !.sent = Append(@, m)]

\* send(message): fail says whether writing or transmitting the frames throws.
\* The id the caller gave message m, or -1 for a message without one: hist.own
\* lists the ids of the caller's messages in the runs that follow them.
OwnId(s, m) == IF m \in DOMAIN s.hist.own THEN s.hist.own[m] ELSE -1

\* write() takes the message's id, or one from the encoder's counter, before
\* anything in it can throw (the counter is followed in the runs where hist.codec
\* is set); hist.ids lists the ids of the messages handed to the socket since the
\* encoder's last reset.
send(s, m, fail) ==
  LET s1 == IF s.autoConnect /\ ~connected(s) THEN connect(s, "send") ELSE s
      own == OwnId(s, m)
      id == IF own >= 0 THEN own ELSE s.nextMessageId
      next == IF s.hist.codec /\ own < 0 THEN s.nextMessageId + 1 ELSE s.nextMessageId
  IN IF ~connected(s1)
     THEN [s1 EXCEPT !.messageQueue = Append(@, m)]
     ELSE IF fail
          THEN [s1 EXCEPT !.messageQueue = Append(@, m), !.faults = @ + 1,
                          !.nextMessageId = next]
          ELSE [s1 EXCEPT !.sent = Append(@, m), !.nextMessageId = next,
                          !.hist.ids = IF s.hist.own # <<>>
                                       THEN Append(@, [m |-> m, id |-> id]) ELSE @]

\* What send() reports to its caller: true ("sent") or false ("queued"); no path
\* of it throws (connect() is async and its rejection is swallowed).
sendReports(s, m, fail) ==
  LET s1 == IF s.autoConnect /\ ~connected(s) THEN connect(s, "send") ELSE s
  IN IF ~connected(s1) THEN "queued"
     ELSE IF fail THEN "queued" ELSE "sent"

\* _flushMessageQueue, up to its first await: the first message is re-sent in the
\* caller's turn, the rest after one microtask each.
flushMessageQueue(s, fail) ==
  IF s.messageQueue = <<>> THEN s
  ELSE LET q == s.messageQueue
           s1 == [s EXCEPT !.messageQueue = <<>>,
                           !.batch = Tail(q),
                           !.hist.flushSet = IF s.hist.on THEN Range(q) ELSE @,
                           !.hist.flushMark = IF s.hist.on THEN nextMsg ELSE @]
           s2 == send(s1, Head(q), fail)
       IN [s2 EXCEPT !.mq = Append(@, Job("flush", 0)),
                     !.hist.flushFault = IF s2.faults > s1.faults THEN Head(q) ELSE 0]

\* resolve() / reject() of the promise made in _performConnect: a settled promise
\* stays as it is; settling it queues the job that settles the promise the async
\* _performConnect returned.
settle(s, p, how) ==
  IF s.prom[p].st = "pending"
  THEN [s EXCEPT !.prom[p].st = how, !.mq = Append(@, Job("adopt", p))]
  ELSE s

\* The open handler without the reset of the codec.
onopenKeepsCodec(s, i, fail) ==
  LET s1 == [s EXCEPT !.reconnectAttempts = 0,
                      !.reconnectDelay = BaseDelay,
                      !.hist.lastDelay = 0]
  IN settle(flushMessageQueue(s1, fail), i, "fulfilled")

MessageIds(q) == {q[k].id : k \in 1..Len(q)}

\* The open handler. inb.old is (in the runs that follow it) the set of the message
\* events received before the latest open event. hist.stale records (in the runs that follow the codec) that
\* some open event found a retry counted, an outbound queue, an id counter that
\* had advanced and decoder state left by an earlier connection.
onopen(s, i, fail) ==
  LET s1 == [s EXCEPT !.reconnectAttempts = 0,
                      !.reconnectDelay = BaseDelay,
                      !.hist.lastDelay = 0,
                      !.hist.stale = @ \/ (/\ s.hist.codec
                                           /\ s.reconnectAttempts > 0
                                           /\ s.messageQueue # <<>>
                                           /\ s.nextMessageId > 1
                                           /\ s.reader.buffer # <<>>
                                           /\ s.reader.pending # NoPending),
                      !.reader = FreshReader,
                      !.inb.dropped = IF s.inb.track THEN @ \cup MessageIds(s.reader.messages) ELSE @,
                      !.inb.old = IF s.inb.ages THEN 1..s.inb.events ELSE @,
                      !.nextMessageId = 1,
                      !.hist.ids = <<>>]
  IN settle(flushMessageQueue(s1, fail), i, "fulfilled")

\* The error handler scheduling a reconnect of its own.
onerrorReconnects(s, i) == attemptReconnect(settle(s, i, "rejected"))

\* An error handler that does not reject the attempt's promise.
onerrorIgnores(s, i) == s

onerror(s, i) == settle(s, i, "rejected")

\* The close handler's condition without the close code, and with <= for <.
ShouldReconnectAnyCode(s, code) ==
  /\ ~s.manuallyDisconnected
  /\ s.reconnectAttempts < maxReconnectAttempts

ShouldReconnectOffByOne(s, code) ==
  /\ ~s.manuallyDisconnected
  /\ code # CleanCode
  /\ s.reconnectAttempts <= maxReconnectAttempts

ShouldReconnect(s, code) ==
  /\ ~s.manuallyDisconnected
  /\ code # CleanCode
  /\ s.reconnectAttempts < maxReconnectAttempts

onclose(s, code) ==
  LET s1 == [s EXCEPT !.ws = 0]
  IN IF ShouldReconnect(s1, code) THEN attemptReconnect(s1) ELSE s1

\* ------------------------------------------------------------ inbound
\* The while loop of _processReceivedMessages from its head.  The first throws
\* handler invocations of the step throw synchronously (caught, the loop goes
\* on); the next one returns either a value ("returns": the loop resumes after
\* one job) or a pending promise ("pending": it resumes once that settles).
RECURSIVE processLoop(_, _, _)
processLoop(s, throws, outcome) ==
  IF ~hasMessages(s.reader) THEN [s EXCEPT !.processingMessages = FALSE]
  ELSE LET m == polled(s.reader)
           s1 == [s EXCEPT !.reader = poll(@)]
           s2 == [s1 EXCEPT !.inb.delivered = IF s.inb.track THEN Append(@, m.id) ELSE @]
       IN IF ~s.onMessage THEN processLoop(s1, throws, outcome)
          ELSE IF throws > 0
          THEN processLoop([s2 EXCEPT !.inb.failed = IF s.inb.track THEN @ \cup {m.id} ELSE @],
                           throws - 1, outcome)
          ELSE IF outcome = "returns"
          THEN [s2 EXCEPT !.mq = Append(@, Job("proc", m.id))]
          ELSE [s2 EXCEPT !.handling = @ \cup {m.id}]

\* _processReceivedMessages without the re-entrancy guard.
processReceivedMessagesNoGuard(s, throws, outcome) ==
  processLoop([s EXCEPT !.processingMessages = TRUE], throws, outcome)

\* _processReceivedMessages, up to its first await
processReceivedMessages(s, throws, outcome) ==
  IF s.processingMessages THEN s
  ELSE processLoop([s EXCEPT !.processingMessages = TRUE], throws, outcome)

\* The bytes of event e reach the decoder: push, then a processing pass unless
\* push threw.
pushChunk(s, e, chunk, throws, outcome) ==
  LET p == push(s.reader, chunk)
      new == SubSeq(p.r.messages, Len(s.reader.messages) + 1, Len(p.r.messages))
      s0 == [s EXCEPT !.reader = p.r]
      s1 == IF ~s.inb.track THEN s0
            ELSE [s0 EXCEPT !.inb.pushed = Append(@, e),
                            !.inb.completed = @ \o [k \in 1..Len(new) |-> new[k].id]]
  IN IF p.threw THEN s1 ELSE processReceivedMessages(s1, throws, outcome)

\* _handleIncomingMessage(data) for the data of event e: an ArrayBuffer is pushed
\* at once, a Blob when its arrayBuffer() promise has fulfilled.
handleIncomingMessage(s, e, chunk, kind, throws, outcome) ==
  IF kind = "buffer" THEN pushChunk(s, e, chunk, throws, outcome)
  ELSE [s EXCEPT !.blobs = @ \cup {[e |-> e, chunk |-> chunk]}]

\* The frames the peer sends: event e carries message e, whole, or only the
\* First frame of it, or cut inside the header; or it carries three messages,
\* 10e+1, 10e+2 and 10e+3, of which the second has the payload "{", which is no
\* JSON text.
Whole(e) == createFrame(e, 3, JsonText("obj"), FlagFirst + FlagLast)

Malformed(id) == createFrame(id, 3, <<123>>, FlagFirst + FlagLast)

Chunk(e, form) ==
  CASE form = "whole" -> Whole(e)
    [] form = "first" -> createFrame(e, 3, JsonText("obj"), FlagFirst)
    [] form = "cut" -> SubSeq(Whole(e), 1, 4)
    [] form = "mixed" -> Whole(10 * e + 1) \o Malformed(10 * e + 2) \o Whole(10 * e + 3)

Forms == {"whole", "first", "cut"}

\* ------------------------------------------------------------ the jobs
\* The promise returned by the async _performConnect settles: connect(), which
\* awaits it, is resumed by the next job, and so is a caller that joined.
adopt(s, p) ==
  LET s1 == [s EXCEPT !.prom[p].adopted = TRUE, !.mq = Append(@, Job("connCont", p))]
  IN IF s.prom[p].joinSt = "registered"
     THEN [s1 EXCEPT !.prom[p].joinSt = "settling", !.mq = Append(@, Job("joinRes", p))]
     ELSE s1

\* connect() after `await this._connectionPromise`: the finally clause, then the
\* call settles as the attempt did.
connectResume(s, p) ==
  LET s1 == [s EXCEPT !.connectionPromise = 0,
                      !.prom[p].waiter = FALSE,
                      !.prom[p].primary = IF s.prom[p].joinSt = "none" THEN "none"
                                          ELSE s.prom[p].st]
  IN IF s.prom[p].waiter THEN [s1 EXCEPT !.mq = Append(@, Job("user", 0))] ELSE s1

\* `return this._connectionPromise` in the async connect(): the returned promise
\* follows the attempt's.
thenJob(s, p) ==
  IF s.prom[p].adopted
  THEN [s EXCEPT !.prom[p].joinSt = "settling", !.mq = Append(@, Job("joinRes", p))]
  ELSE [s EXCEPT !.prom[p].joinSt = "registered"]

\* The joined call settles as the attempt's promise did; the caller is resumed.
joinResume(s, p) ==
  [s EXCEPT !.prom[p].joinSt = "none", !.prom[p].primary = "none",
            !.hist.joinDiffers = @ \/ (s.prom[p].primary # s.prom[p].st),
            !.mq = Append(@, Job("user", 0))]

\* _flushMessageQueue after `await this.send(message)`: the next message, if any.
flushResume(s, fail) ==
  IF s.batch = <<>> THEN [s EXCEPT !.hist.flushFault = 0]
  ELSE LET s1 == send([s EXCEPT !.batch = Tail(@)], Head(s.batch), fail)
       IN [s1 EXCEPT !.mq = Append(@, Job("flush", 0)),
                     !.hist.flushFault = IF s1.faults > s.faults THEN Head(s.batch) ELSE @]

\* ------------------------------------------------------------ the machine
NoMessage == [hasId |-> FALSE, id |-> 0, type |-> 0, payload |-> "absent"]

NoInbound == [events |-> 0, pushed |-> <<>>, completed |-> <<>>, delivered |-> <<>>,
              dropped |-> {}, cut |-> 0, binaryType |-> "blob",
              track |-> FALSE, forms |-> {"whole"}, failed |-> {},
              ages |-> FALSE, old |-> {}]

\* The codec and the inbound side as the constructor leaves them, with a peer that
\* produces ev message events.
InitInbound(ev, handler) ==
  /\ reader = FreshReader
  /\ nextMessageId = 1
  /\ processingMessages = FALSE
  /\ onMessage \in handler
  /\ handling = {}
  /\ blobs = {}
  /\ inb = NoInbound
  /\ evBudget = ev

NoWire == [written |-> FALSE, frames |-> <<>>, fed |-> 0, out |-> <<>>, none |-> FALSE]

NoCodecRun == input = NoMessage /\ wire = NoWire

InitAgentWith(msgs, flt, auto, tm, cd, own) ==
  /\ ws = 0
  /\ reconnectAttempts = 0
  /\ reconnectDelay = BaseDelay
  /\ reconnectTimer = 0
  /\ manuallyDisconnected = FALSE
  /\ connectionPromise = 0
  /\ messageQueue = <<>>
  /\ autoConnect \in auto
  /\ sock = [i \in Socks |-> FreeSock]
  /\ prom = [i \in Socks |-> FreeProm]
  /\ timers = [h \in Handles |-> 0]
  /\ mq = <<>>
  /\ batch = <<>>
  /\ sent = <<>>
  /\ nextMsg = 1
  /\ faults = 0
  /\ msgBudget = msgs
  /\ faultBudget = flt
  /\ hist = [on |-> FALSE, quiet |-> FALSE, notOpen |-> {}, flushSet |-> {},
             flushMark |-> 0, lastDelay |-> 0, joinDiffers |-> FALSE, flushFault |-> 0,
             timer |-> tm, superseded |-> FALSE, codec |-> cd, stale |-> FALSE,
             own |-> own, ids |-> <<>>]

InitAgent(msgs, flt, auto, tm, cd) == InitAgentWith(msgs, flt, auto, tm, cd, <<>>)

InitWith(msgs, flt, auto, tm) ==
  /\ NoCodecRun
  /\ InitInbound(0, {FALSE})
  /\ InitAgent(msgs, flt, auto, tm, FALSE)

Init == InitWith(MaxMsgs, MaxFaults, BOOLEAN, FALSE)

\* A task runs when no job is queued; the close event of a failed socket follows
\* its error event in the same task.
TaskReady == mq = <<>> /\ \A i \in Socks : sock[i].st # "ERRORED"

Running(k) == mq # <<>> /\ Head(mq).k = k

Popped == [Cur EXCEPT !.mq = Tail(@)]

FailChoices == IF faults < faultBudget THEN BOOLEAN ELSE {FALSE}

\* Caller code runs either as a task of its own (an event handler or timer of the
\* application) or as the continuation at the head of the job queue.
UserRuns == TaskReady \/ Running("user")

UserConnect ==
  /\ UserRuns
  /\ Commit([connect(Cur, "user") EXCEPT !.hist.quiet = FALSE])
  /\ UNCHANGED nextMsg

UserDisconnect ==
  /\ UserRuns
  /\ Commit([disconnect(Cur) EXCEPT !.hist.quiet = hist.on])
  /\ UNCHANGED nextMsg

UserSend ==
  /\ UserRuns
  /\ nextMsg <= msgBudget
  /\ \E fail \in FailChoices :
       Commit([send(Cur, nextMsg, fail) EXCEPT
                 !.hist.quiet = FALSE,
                 !.hist.notOpen = IF hist.on /\ ~connected(Cur) THEN @ \cup {nextMsg}
                                  ELSE @])
  /\ nextMsg' = nextMsg + 1

\* The caller awaits a settled promise: its code goes on after the queued jobs.
UserYield ==
  /\ Running("user")
  /\ Len(mq) > 1
  /\ Commit([Cur EXCEPT !.mq = Append(Tail(@), Head(@))])
  /\ UNCHANGED nextMsg

UserDone ==
  /\ Running("user")
  /\ Commit(Popped)
  /\ UNCHANGED nextMsg

FlushJob ==
  /\ Running("flush")
  /\ \E fail \in FailChoices : Commit(flushResume(Popped, fail))
  /\ UNCHANGED nextMsg

AdoptJob ==
  /\ Running("adopt")
  /\ Commit(adopt(Popped, Head(mq).p))
  /\ UNCHANGED nextMsg

ConnectJob ==
  /\ Running("connCont")
  /\ Commit(connectResume(Popped, Head(mq).p))
  /\ UNCHANGED nextMsg

ThenJob ==
  /\ Running("thenJob")
  /\ Commit(thenJob(Popped, Head(mq).p))
  /\ UNCHANGED nextMsg

JoinJob ==
  /\ Running("joinRes")
  /\ Commit(joinResume(Popped, Head(mq).p))
  /\ UNCHANGED nextMsg

\* The socket's events.
SocketOpen(i) ==
  /\ TaskReady
  /\ sock[i].st = "CONNECTING"
  /\ \E fail \in FailChoices :
       Commit(onopen([Cur EXCEPT !.sock[i].st = "OPEN"], i, fail))
  /\ UNCHANGED nextMsg

SocketError(i) ==
  /\ TaskReady
  /\ sock[i].st \in {"CONNECTING", "OPEN", "CLOSING", "ABORTING"}
  /\ Commit(onerror([Cur EXCEPT !.sock[i] = [st |-> "ERRORED", code |-> AbnormalCode]], i))
  /\ UNCHANGED nextMsg

PeerClosing(i, code) ==
  /\ TaskReady
  /\ sock[i].st = "OPEN"
  /\ Commit([Cur EXCEPT !.sock[i] = [st |-> "CLOSING", code |-> code]])
  /\ UNCHANGED nextMsg

SocketClose(i) ==
  /\ mq = <<>>
  /\ \/ sock[i].st = "ERRORED"
     \/ sock[i].st = "CLOSING" /\ TaskReady
  /\ Commit(onclose(released(Cur, i), sock[i].code))
  /\ UNCHANGED nextMsg

TimerFire(h) ==
  /\ TaskReady
  /\ timers[h] # 0
  /\ Commit(connect([Cur EXCEPT !.timers[h] = 0, !.reconnectTimer = 0,
                                !.hist.superseded = FALSE], "timer"))
  /\ UNCHANGED nextMsg

Next ==
  \/ UserConnect
  \/ UserDisconnect
  \/ UserSend
  \/ UserYield
  \/ UserDone
  \/ FlushJob
  \/ AdoptJob
  \/ ConnectJob
  \/ ThenJob
  \/ JoinJob
  \/ \E i \in Socks : SocketOpen(i)
  \/ \E i \in Socks : SocketError(i)
  \/ \E i \in Socks, code \in PeerCodes : PeerClosing(i, code)
  \/ \E i \in Socks : SocketClose(i)
  \/ \E h \in Handles : TimerFire(h)

Spec == Init /\ [][Next]_vars

\* The runs in which the transport may fail every message the caller submits and
\* no more than MaxRetries reconnects in a row are scheduled without an open.
InitSend == InitWith(MaxMsgs, MaxMsgs, BOOLEAN, TRUE)

\* The steps of Next, but for the close events after MaxRetries reconnects.
FewRetries == reconnectAttempts' <= MaxRetries

NextSend ==
  \/ UserConnect
  \/ UserDisconnect
  \/ UserSend
  \/ UserYield
  \/ UserDone
  \/ FlushJob
  \/ AdoptJob
  \/ ConnectJob
  \/ ThenJob
  \/ JoinJob
  \/ \E i \in Socks : SocketOpen(i)
  \/ \E i \in Socks : SocketError(i)
  \/ \E i \in Socks, code \in PeerCodes : PeerClosing(i, code)
  \/ \E i \in Socks : SocketClose(i) /\ FewRetries
  \/ \E h \in Handles : TimerFire(h)

SpecSend == InitSend /\ [][NextSend]_vars

\* The caller has called connect() and, while the socket is connecting, submitted
\* k messages (a state Spec reaches, given the budget), auto-connect being on as
\* by default: the runs from there, with one more message to submit and a
\* transport that does not fail.
InitFlush ==
  \E k \in 1..FlushMsgs :
    /\ NoCodecRun
    /\ InitInbound(0, {FALSE})
    /\ ws = 1
    /\ reconnectAttempts = 0
    /\ reconnectDelay = BaseDelay
    /\ reconnectTimer = 0
    /\ manuallyDisconnected = FALSE
    /\ connectionPromise = 1
    /\ messageQueue = [m \in 1..k |-> m]
    /\ autoConnect = TRUE
    /\ sock = [i \in Socks |-> IF i = 1 THEN [st |-> "CONNECTING", code |-> 0] ELSE FreeSock]
    /\ prom = [i \in Socks |-> IF i = 1 THEN [FreeProm EXCEPT !.st = "pending", !.waiter = TRUE]
                                ELSE FreeProm]
    /\ timers = [h \in Handles |-> 0]
    /\ mq = <<>>
    /\ batch = <<>>
    /\ sent = <<>>
    /\ nextMsg = k + 1
    /\ faults = 0
    /\ msgBudget = k + 1
    /\ faultBudget = 0
    /\ hist = [on |-> TRUE, quiet |-> FALSE, notOpen |-> 1..k, flushSet |-> {},
               flushMark |-> 0, lastDelay |-> 0, joinDiffers |-> FALSE, flushFault |-> 0,
               timer |-> FALSE, superseded |-> FALSE, codec |-> FALSE, stale |-> FALSE,
               own |-> <<>>, ids |-> <<>>]

SpecFlush == InitFlush /\ [][Next]_vars

\* ------------------------------------------------------------ the inbound side
Outcomes == {"returns", "pending"}

\* A message event on an open socket (the current one or not): the peer's next
\* frame, unless the peer has stopped inside a frame on this socket.
SocketMessage(i) ==
  /\ TaskReady
  /\ sock[i].st = "OPEN"
  /\ inb.events < evBudget
  /\ inb.cut # i
  /\ \E form \in inb.forms, throws \in 0..MaxEvents, outcome \in Outcomes :
       LET e == inb.events + 1
       IN Commit(handleIncomingMessage(
                   [Cur EXCEPT !.inb.events = e,
                               !.inb.cut = IF form = "cut" THEN i ELSE @],
                   e, Chunk(e, form),
                   IF inb.binaryType = "blob" THEN "blob" ELSE "buffer",
                   throws, outcome))
  /\ UNCHANGED nextMsg

\* A blob's arrayBuffer() promise fulfils: the callback pushes its bytes.
BlobLoaded(b) ==
  /\ TaskReady
  /\ b \in blobs
  /\ \E throws \in 0..MaxEvents, outcome \in Outcomes :
       Commit(pushChunk([Cur EXCEPT !.blobs = @ \ {b}], b.e, b.chunk, throws, outcome))
  /\ UNCHANGED nextMsg

\* A handler's promise settling when no try/catch surrounds the await: a rejection
\* ends the processing pass.
HandlerSettlesNoCatch(m) ==
  /\ TaskReady
  /\ m \in handling
  /\ \E rejected \in BOOLEAN :
       IF rejected
       THEN Commit([Cur EXCEPT !.handling = @ \ {m},
                               !.processingMessages = FALSE,
                               !.inb.failed = IF inb.track THEN @ \cup {m} ELSE @])
       ELSE Commit([Cur EXCEPT !.handling = @ \ {m},
                               !.mq = Append(@, Job("proc", m))])
  /\ UNCHANGED nextMsg

\* The promise a handler invocation returned settles (fulfilled or rejected): the
\* processing pass that awaits it is resumed by a job.
HandlerSettles(m) ==
  /\ TaskReady
  /\ m \in handling
  /\ \E rejected \in BOOLEAN :
       Commit([Cur EXCEPT !.handling = @ \ {m},
                          !.mq = Append(@, Job("proc", m)),
                          !.inb.failed = IF rejected /\ inb.track THEN @ \cup {m} ELSE @])
  /\ UNCHANGED nextMsg

\* _processReceivedMessages after `await this.onMessage(message)`
ProcJob ==
  /\ Running("proc")
  /\ \E throws \in 0..MaxEvents, outcome \in Outcomes :
       Commit(processLoop(Popped, throws, outcome))
  /\ UNCHANGED nextMsg

\* The runs of a caller that only sends (auto-connect on) and a peer that accepts
\* every connection, sends MaxEvents frames and closes when it wants.
InitWithPeer ==
  /\ NoCodecRun
  /\ reader = FreshReader
  /\ nextMessageId = 1
  /\ processingMessages = FALSE
  /\ onMessage \in BOOLEAN
  /\ handling = {}
  /\ blobs = {}
  /\ \E bt \in {"blob", "arraybuffer"} :
       inb = [NoInbound EXCEPT !.binaryType = bt, !.track = TRUE]
  /\ evBudget = MaxEvents
  /\ InitAgent(MaxMsgs, 0, {TRUE}, FALSE, TRUE)

NextWithPeer ==
  \/ UserSend
  \/ FlushJob
  \/ AdoptJob
  \/ ConnectJob
  \/ ProcJob
  \/ \E i \in Socks : SocketOpen(i)
  \/ \E i \in Socks : SocketMessage(i)
  \/ \E b \in blobs : BlobLoaded(b)
  \/ \E m \in handling : HandlerSettles(m)
  \/ \E i \in Socks, code \in PeerCodes : PeerClosing(i, code)
  \/ \E i \in Socks : SocketClose(i)
  \/ \E h \in Handles : TimerFire(h)

SpecWithPeer == InitWithPeer /\ [][NextWithPeer]_vars

\* The runs of a caller that only sends, with a handler registered, on sockets
\* that hand over Blobs, with a peer that may stop inside a message; the message
\* events received before the latest open event are followed.
InitStale ==
  /\ NoCodecRun
  /\ reader = FreshReader
  /\ nextMessageId = 1
  /\ processingMessages = FALSE
  /\ onMessage = TRUE
  /\ handling = {}
  /\ blobs = {}
  /\ inb = [NoInbound EXCEPT !.binaryType = "blob", !.track = TRUE, !.ages = TRUE,
                             !.forms = {"whole", "first"}]
  /\ evBudget = MaxEvents
  /\ InitAgent(MaxMsgs, 0, {TRUE}, FALSE, TRUE)

SpecStale == InitStale /\ [][NextWithPeer]_vars

\* The runs with a handler registered on sockets that hand over ArrayBuffers, when
\* every queued job runs and every handler call settles; nothing is assumed of
\* the peer, the caller or the timers.
InitDeliver ==
  /\ NoCodecRun
  /\ reader = FreshReader
  /\ nextMessageId = 1
  /\ processingMessages = FALSE
  /\ onMessage = TRUE
  /\ handling = {}
  /\ blobs = {}
  /\ inb = [NoInbound EXCEPT !.binaryType = "arraybuffer", !.track = TRUE]
  /\ evBudget = MaxEvents
  /\ InitAgent(MaxMsgs, 0, {TRUE}, FALSE, TRUE)

NextDeliver ==
  \/ UserSend
  \/ FlushJob
  \/ AdoptJob
  \/ ConnectJob
  \/ ProcJob
  \/ \E i \in Socks : SocketOpen(i)
  \/ \E i \in Socks : SocketMessage(i)
  \/ \E m \in handling : HandlerSettles(m)
  \/ \E i \in Socks, code \in PeerCodes : PeerClosing(i, code)
  \/ \E i \in Socks : SocketClose(i)
  \/ \E h \in Handles : TimerFire(h)

FairDeliver ==
  /\ InitDeliver /\ [][NextDeliver]_vars
  /\ WF_vars(FlushJob)
  /\ WF_vars(AdoptJob)
  /\ WF_vars(ConnectJob)
  /\ WF_vars(ProcJob)
  /\ SF_vars(\E m \in handling : HandlerSettles(m))

\* The runs of InitDeliver with a peer that also sends chunks of three messages of
\* which the second has a payload that does not parse.
InitMalformed ==
  /\ NoCodecRun
  /\ reader = FreshReader
  /\ nextMessageId = 1
  /\ processingMessages = FALSE
  /\ onMessage = TRUE
  /\ handling = {}
  /\ blobs = {}
  /\ inb = [NoInbound EXCEPT !.binaryType = "arraybuffer", !.track = TRUE,
                             !.forms = {"whole", "mixed"}]
  /\ evBudget = MaxEvents
  /\ InitAgent(MaxMsgs, 0, {TRUE}, FALSE, TRUE)

SpecMalformed == InitMalformed /\ [][NextDeliver]_vars

\* The runs of the same caller with no handler registered, on sockets that hand
\* over ArrayBuffers, and a peer that may also stop inside a message or inside a
\* frame; what was pushed and delivered is not recorded.
InitReopen ==
  /\ NoCodecRun
  /\ reader = FreshReader
  /\ nextMessageId = 1
  /\ processingMessages = FALSE
  /\ onMessage = FALSE
  /\ handling = {}
  /\ blobs = {}
  /\ inb = [NoInbound EXCEPT !.binaryType = "arraybuffer", !.forms = Forms]
  /\ evBudget = MaxEvents
  /\ InitAgent(MaxMsgs, 0, {TRUE}, FALSE, TRUE)

NextReopen ==
  \/ UserSend
  \/ FlushJob
  \/ AdoptJob
  \/ ConnectJob
  \/ \E i \in Socks : SocketOpen(i)
  \/ \E i \in Socks : SocketMessage(i)
  \/ \E i \in Socks, code \in PeerCodes : PeerClosing(i, code)
  \/ \E i \in Socks : SocketClose(i)
  \/ \E h \in Handles : TimerFire(h)

SpecReopen == InitReopen /\ [][NextReopen]_vars

\* C12: every open event, in the step that settles the connection promise (so
\* before connect()'s own outcome is resolved by the jobs queued behind it), sets
\* the attempt count to 0 and the base delay to 1000, leaves the decoder with an
\* empty buffer, no pending reassembly and an empty ready-queue, restarts the
\* encoder's ids at 1 (the flush's first re-send, made in the same step, takes id
\* 1), and starts the flush of the outbound queue.
C12_OpenResets ==
  [][\A i \in Socks : SocketOpen(i) =>
       /\ reconnectAttempts' = 0
       /\ reconnectDelay' = 1000
       /\ reader'.buffer = <<>>
       /\ reader'.pending = NoPending
       /\ reader'.messages = <<>>
       /\ nextMessageId' = IF Len(sent') > Len(sent) THEN 2 ELSE 1
       /\ messageQueue # <<>> =>
            /\ batch' = Tail(messageQueue)
            /\ \E k \in 1..Len(mq') : mq'[k] = Job("flush", 0)
            /\ \/ sent' = Append(sent, Head(messageQueue)) /\ messageQueue' = <<>>
               \/ sent' = sent /\ messageQueue' = <<Head(messageQueue)>>
       /\ messageQueue = <<>> => sent' = sent /\ messageQueue' = <<>>
       /\ prom[i].st = "pending" =>
            /\ prom'[i].st = "fulfilled"
            /\ mq'[Len(mq')] = Job("adopt", i)
            /\ connectionPromise' = connectionPromise]_vars

C12_Witness == hist.stale /\ reader = FreshReader /\ nextMessageId = 2

\* The processing passes that are suspended at their await: on a handler whose
\* promise is pending, or on the job that resumes them.
Passes == Cardinality(handling) + Cardinality({k \in 1..Len(mq) : mq[k].k = "proc"})

\* The completed messages that no decoder reset has discarded, in order.
Kept == SelectSeq(inb.completed, LAMBDA id : id \notin inb.dropped)

IsPrefix(a, b) == Len(a) <= Len(b) /\ \A k \in 1..Len(a) : a[k] = b[k]

\* C15: at most one handler invocation is in progress, at most one processing
\* pass is alive (and the guard flag is set while it is), and the handler has
\* received the messages in the order the decoder completed them.
C15_Sequential ==
  /\ Cardinality(handling) <= 1
  /\ Passes <= 1
  /\ Passes = 1 => processingMessages
  /\ onMessage => IsPrefix(inb.delivered, Kept)

C15_Witness ==
  /\ Cardinality(handling) = 1
  /\ processingMessages
  /\ hasMessages(reader)
  /\ Len(inb.delivered) = 1

Events == 1..MaxEvents

Was(q, id) == \E k \in 1..Len(q) : q[k] = id

\* The steps in which handler calls are made, fail or are resumed from.
InboundStep ==
  \/ ProcJob
  \/ \E i \in Socks : SocketMessage(i)
  \/ \E m \in handling : HandlerSettles(m)

\* C16 as stated: with a handler registered, every message the decoder has
\* completed is eventually delivered to it.
C16_AllDelivered ==
  \A id \in Events :
    (onMessage /\ Was(inb.completed, id)) ~> Was(inb.delivered, id)

Ready(id) == \E k \in 1..Len(reader.messages) : reader.messages[k].id = id

\* C16, amended: with a handler registered, a completed message is in the ready
\* queue until it is delivered or a socket open resets the decoder; every message
\* in the ready queue while a processing pass is in progress is eventually
\* delivered unless a socket open resets the decoder first, whether earlier
\* handler calls threw, rejected or returned; and no step of inbound processing
\* changes the socket, the outbound queue or the reconnect state.
C16_DeliveredOrReset ==
  /\ [](onMessage =>
         \A id \in Events :
           Was(inb.completed, id) =>
             Ready(id) \/ Was(inb.delivered, id) \/ id \in inb.dropped)
  /\ \A id \in Events :
       (onMessage /\ Ready(id) /\ processingMessages) ~>
         (Was(inb.delivered, id) \/ id \in inb.dropped)
  /\ [][InboundStep =>
         UNCHANGED <<ws, sock, prom, connectionPromise, manuallyDisconnected,
                     reconnectAttempts, reconnectDelay, reconnectTimer, timers,
                     messageQueue, batch, sent, nextMessageId>>]_vars

\* A handler call has failed on a message and a later message has been delivered.
C16_Witness ==
  \E k \in 1..Len(inb.delivered) :
    /\ inb.delivered[k] \in inb.failed
    /\ k < Len(inb.delivered)

\* C17 (as claimed): the bytes of the message events are pushed into the decoder
\* in the order of the events, on ArrayBuffer and on Blob sockets.
C17_ChunkOrder ==
  \A j, k \in 1..Len(inb.pushed) : j < k => inb.pushed[j] < inb.pushed[k]

\* ------------------------------------------------------------ the codec alone
\* A message is written by a fresh encoder and its frames are pushed, one push
\* each, into a fresh decoder.
Ids == {0, 1, 5, 300}
Types == {1, 2, 3, 4, 100}
Payloads == Values \cup {"absent"}

Inputs ==
  [hasId : {TRUE}, id : Ids, type : Types, payload : Payloads]
    \cup [hasId : {FALSE}, id : {0}, type : Types, payload : Payloads]

InitCodec ==
  /\ input \in Inputs
  /\ wire = NoWire
  /\ InitInbound(0, {FALSE})
  /\ InitAgent(0, 0, {TRUE}, FALSE, TRUE)

Unused ==
  UNCHANGED <<ws, reconnectAttempts, reconnectDelay, reconnectTimer,
              manuallyDisconnected, connectionPromise, messageQueue, autoConnect, sock,
              prom, timers, mq, batch, sent, nextMsg, faults, msgBudget, faultBudget,
              processingMessages, onMessage, handling, blobs, inb, evBudget, hist>>

CodecWrite ==
  /\ ~wire.written
  /\ LET w == write(nextMessageId, input)
     IN /\ wire' = [wire EXCEPT !.written = TRUE, !.frames = w.frames]
        /\ nextMessageId' = w.nextMessageId
  /\ UNCHANGED <<input, reader>>
  /\ Unused

CodecPush ==
  /\ wire.written
  /\ wire.fed < Len(wire.frames)
  /\ reader' = push(reader, wire.frames[wire.fed + 1]).r
  /\ wire' = [wire EXCEPT !.fed = @ + 1]
  /\ UNCHANGED <<input, nextMessageId>>
  /\ Unused

CodecPoll ==
  /\ wire.written
  /\ wire.fed = Len(wire.frames)
  /\ hasMessages(reader)
  /\ reader' = poll(reader)
  /\ wire' = [wire EXCEPT !.out = Append(@, polled(reader))]
  /\ UNCHANGED <<input, nextMessageId>>
  /\ Unused

NextCodec == CodecWrite \/ CodecPush \/ CodecPoll

SpecCodec == InitCodec /\ [][NextCodec]_vars

\* The same with payloads around and beyond one frame's capacity.
LongInputs ==
  [hasId : {TRUE}, id : {0, 300}, type : {3, 100}, payload : Longs \cup {"obj", "absent"}]
    \cup [hasId : {FALSE}, id : {0}, type : {3, 100}, payload : Longs \cup {"obj", "absent"}]

InitFrames ==
  /\ input \in LongInputs
  /\ wire = NoWire
  /\ InitInbound(0, {FALSE})
  /\ InitAgent(0, 0, {TRUE}, FALSE, TRUE)

\* The decoder after the frames have been pushed in order, one push each.
RECURSIVE PushAll(_, _)
PushAll(r, frames) ==
  IF frames = <<>> THEN r ELSE PushAll(push(r, Head(frames)).r, Tail(frames))

\* write(input) by a fresh encoder; of the frames written the headers are kept.
FramesWrite ==
  /\ ~wire.written
  /\ LET w == write(nextMessageId, input)
     IN /\ wire' = [wire EXCEPT !.written = TRUE,
                                !.frames = [k \in 1..Len(w.frames) |->
                                              SubSeq(w.frames[k], 1, HeaderSize)]]
        /\ nextMessageId' = w.nextMessageId
  /\ UNCHANGED <<input, reader>>
  /\ Unused

\* All the frames of write(input) are pushed into the fresh decoder.
FramesPush ==
  /\ wire.written
  /\ wire.fed = 0
  /\ reader' = PushAll(reader, write(1, input).frames)
  /\ wire' = [wire EXCEPT !.fed = Len(wire.frames)]
  /\ UNCHANGED <<input, nextMessageId>>
  /\ Unused

NextFrames == FramesWrite \/ FramesPush \/ CodecPoll

SpecFrames == InitFrames /\ [][NextFrames]_vars

\* ------------------------------------------------------------ the decoder alone
\* A byte stream arrives at a fresh decoder in chunks of any of several sizes,
\* and the decoder is polled at any time.  wire.fed counts the bytes pushed,
\* wire.out holds the messages polled, wire.none says that the last poll found
\* nothing, wire.written that a push has thrown.
Frame(v, flags, id, type, payload) ==
  [createFrame(id, type, payload, flags) EXCEPT ![1] = v]

\* The streams, as the frames they are made of.
StreamFrames(name) ==
  CASE name = "two" ->
         <<Frame(1, 3, 1, 3, JsonText("obj")), Frame(1, 3, 2, 4, JsonText("str"))>>
    [] name = "parts" ->
         <<Frame(1, 1, 1, 3, <<34>>), Frame(1, 0, 1, 3, <<97>>), Frame(1, 2, 1, 3, <<34>>),
           Frame(1, 3, 2, 3, JsonText("obj"))>>
    [] name = "interleaved" ->
         <<Frame(1, 1, 1, 3, <<123>>), Frame(1, 1, 2, 3, <<34>>), Frame(1, 0, 2, 3, <<97>>),
           Frame(1, 2, 2, 3, <<34>>), Frame(1, 2, 1, 3, <<125>>)>>
    [] name = "empty" ->
         <<Frame(1, 3, 1, 2, <<>>), Frame(1, 3, 2, 3, JsonText("true"))>>
    [] name = "orphans" ->
         <<Frame(1, 3, 1, 3, JsonText("obj")), Frame(1, 0, 9, 3, <<97>>),
           Frame(1, 1, 2, 3, <<34>>), Frame(1, 2, 8, 3, <<125>>),
           Frame(1, 2, 2, 3, <<34>>), Frame(1, 3, 3, 3, JsonText("1"))>>
    [] name = "version single" ->
         <<Frame(2, 3, 1, 3, JsonText("obj")), Frame(1, 3, 2, 3, JsonText("str"))>>
    [] name = "version first" ->
         <<Frame(2, 1, 1, 3, <<123>>), Frame(1, 2, 1, 3, <<125>>),
           Frame(1, 3, 2, 3, JsonText("str"))>>
    [] name = "version middle" ->
         <<Frame(1, 1, 1, 3, <<34>>), Frame(0, 0, 1, 3, <<97>>), Frame(1, 2, 1, 3, <<34>>),
           Frame(1, 3, 2, 3, JsonText("obj"))>>
    [] name = "version last" ->
         <<Frame(1, 1, 1, 3, <<123>>), Frame(2, 2, 1, 3, <<125>>),
           Frame(1, 3, 2, 3, JsonText("str"))>>
    [] name = "mismatch" ->
         <<Frame(1, 1, 1, 3, <<34>>), Frame(1, 1, 2, 3, <<123>>), Frame(1, 0, 1, 4, <<120>>),
           Frame(1, 2, 1, 4, <<121>>), Frame(1, 0, 1, 3, <<97>>), Frame(1, 2, 1, 3, <<34>>),
           Frame(1, 2, 2, 3, <<125>>)>>
    [] name = "mismatch last" ->
         <<Frame(1, 1, 1, 3, <<123>>), Frame(1, 2, 1, 4, <<125>>), Frame(1, 2, 1, 3, <<125>>),
           Frame(1, 3, 2, 3, JsonText("str"))>>
    [] name = "mismatch other" ->
         <<Frame(1, 1, 1, 3, <<34>>), Frame(1, 1, 2, 4, <<123>>), Frame(1, 0, 2, 3, <<34>>),
           Frame(1, 0, 1, 4, <<125>>), Frame(1, 0, 1, 3, <<97>>), Frame(1, 2, 2, 4, <<125>>),
           Frame(1, 2, 1, 3, <<34>>)>>
    [] name = "big" ->
         <<Frame(1, 3, 1, 100, LongText(600)), Frame(1, 3, 2, 100, LongText(600)),
           Frame(1, 3, 3, 3, JsonText("obj"))>>
    [] name = "grow" ->
         <<Frame(1, 3, 1, 3, JsonText("obj")), Frame(1, 3, 2, 100, LongText(1100)),
           Frame(1, 3, 3, 3, JsonText("obj"))>>

Streams == {"two", "parts", "interleaved", "empty", "orphans", "version single",
            "version first", "version middle", "version last", "big", "grow"}

Stream == Concat(StreamFrames(input))

\* The sizes of the chunks: the long streams come in large chunks, the others in
\* small ones; the rest of the stream in one chunk is always possible.
ChunkSizes == IF input \in {"big", "grow"} THEN {250, 700} ELSE {1, 3, 10, 11}

InitStream ==
  /\ input \in Streams
  /\ wire = NoWire
  /\ reader = FreshRaw
  /\ nextMessageId = 1
  /\ processingMessages = FALSE
  /\ onMessage = FALSE
  /\ handling = {}
  /\ blobs = {}
  /\ inb = NoInbound
  /\ evBudget = 0
  /\ InitAgent(0, 0, {TRUE}, FALSE, TRUE)

StreamPush ==
  /\ wire.fed < Len(Stream)
  /\ \E n \in ChunkSizes \cup {Len(Stream) - wire.fed} :
       /\ wire.fed + n <= Len(Stream)
       /\ LET p == pushRaw(reader, SubSeq(Stream, wire.fed + 1, wire.fed + n))
          IN /\ reader' = p.r
             /\ wire' = [wire EXCEPT !.fed = @ + n, !.written = @ \/ p.threw]
  /\ UNCHANGED <<input, nextMessageId>>
  /\ Unused

StreamPoll ==
  /\ reader' = poll(reader)
  /\ wire' = [wire EXCEPT !.out = IF hasMessages(reader) THEN Append(@, polled(reader)) ELSE @,
                          !.none = ~hasMessages(reader)]
  /\ UNCHANGED <<input, nextMessageId>>
  /\ Unused

NextStream == StreamPush \/ StreamPoll

SpecStream == InitStream /\ [][NextStream]_vars

\* The same for streams in which continuation frames carry another type code
\* than the First frame of their message.
MismatchStreams == {"mismatch", "mismatch last", "mismatch other"}

InitMismatch ==
  /\ input \in MismatchStreams
  /\ wire = NoWire
  /\ reader = FreshRaw
  /\ nextMessageId = 1
  /\ processingMessages = FALSE
  /\ onMessage = FALSE
  /\ handling = {}
  /\ blobs = {}
  /\ inb = NoInbound
  /\ evBudget = 0
  /\ InitAgent(0, 0, {TRUE}, FALSE, TRUE)

SpecMismatch == InitMismatch /\ [][NextStream]_vars

\* ------------------------------------------------------------ the encoder alone
\* Messages with and without an id of their own are written by one encoder, which
\* is reset at any time; wire.out is the log of the writes since the last reset.
WriterInputs ==
  [hasId : {TRUE}, id : {0, 1, 2, 300}, type : {3}, payload : {"obj", "absent"}]
    \cup [hasId : {FALSE}, id : {0}, type : {3}, payload : {"obj", "absent"}]

InitWriter ==
  /\ input = NoMessage
  /\ wire = NoWire
  /\ InitInbound(0, {FALSE})
  /\ InitAgent(0, 0, {TRUE}, FALSE, TRUE)

WriterWrite ==
  /\ wire.fed < MaxWrites
  /\ \E message \in WriterInputs :
       LET w == write(nextMessageId, message)
       IN /\ input' = message
          /\ nextMessageId' = w.nextMessageId
          /\ wire' = [wire EXCEPT !.written = TRUE,
                                  !.frames = w.frames,
                                  !.fed = @ + 1,
                                  !.out = Append(@, [id |-> parseHeader(w.frames[1]).messageId,
                                                     own |-> message.hasId])]
  /\ UNCHANGED reader
  /\ Unused

WriterReset ==
  /\ nextMessageId' = 1
  /\ wire' = [wire EXCEPT !.written = FALSE, !.frames = <<>>, !.out = <<>>]
  /\ UNCHANGED <<input, reader>>
  /\ Unused

NextWriter == WriterWrite \/ WriterReset

SpecWriter == InitWriter /\ [][NextWriter]_vars

\* ------------------------------------------------------------ the ids on the wire
\* The caller submits messages of which some carry an id of their own (no two of
\* them the same one) over a transport that may fail, and the connection may be
\* lost and made again.
OwnIds == {-1, 1, 2}

Owns ==
  {own \in [1..MaxMsgs -> OwnIds] :
     \A a, b \in 1..MaxMsgs : (a # b /\ own[a] >= 0) => own[a] # own[b]}

InitIds ==
  /\ NoCodecRun
  /\ InitInbound(0, {FALSE})
  /\ \E own \in Owns : InitAgentWith(MaxMsgs, MaxFaults, {TRUE}, FALSE, TRUE, own)

NextIds ==
  \/ UserSend
  \/ FlushJob
  \/ AdoptJob
  \/ ConnectJob
  \/ \E i \in Socks : SocketOpen(i)
  \/ \E i \in Socks, code \in PeerCodes : PeerClosing(i, code)
  \/ \E i \in Socks : SocketClose(i) /\ FewRetries
  \/ \E h \in Handles : TimerFire(h)

SpecIds == InitIds /\ [][NextIds]_vars

\* ------------------------------------------------------------ the header alone
\* A header is written for field values over the full widths and parsed again.
\* A message id is kept as its two 16-bit halves, hi * 65536 + lo, since the ids
\* from 2^31 on are beyond 32-bit signed integers.
WideByteAt(x, shift) ==
  CASE shift = 24 -> x.hi \div 256
    [] shift = 16 -> x.hi % 256
    [] shift = 8 -> x.lo \div 256
    [] shift = 0 -> x.lo % 256

\* The header bytes of MessageWriter._createFrame for a payload of payloadLength
\* bytes.
createHeader(messageId, type, payloadLength, flags) ==
  <<version,
    ByteAt(flags, 8), ByteAt(flags, 0),
    WideByteAt(messageId, 24), WideByteAt(messageId, 16), WideByteAt(messageId, 8),
    WideByteAt(messageId, 0),
    type % 256,
    ByteAt(payloadLength, 8), ByteAt(payloadLength, 0)>>

HeaderInputs ==
  [id : [hi : {0, 1, 32767, 32768, 65535}, lo : {0, 1, 65535}],
   flags : {0, 1, 2, 3, 256, 65535},
   type : {0, 3, 255},
   payloadLength : {0, 1, 255, 256, 65535}]

InitHeader ==
  /\ input \in HeaderInputs
  /\ wire = NoWire
  /\ InitInbound(0, {FALSE})
  /\ InitAgent(0, 0, {TRUE}, FALSE, TRUE)

HeaderWrite ==
  /\ ~wire.written
  /\ wire' = [wire EXCEPT !.written = TRUE,
                          !.frames = <<createHeader(input.id, input.type,
                                                    input.payloadLength, input.flags)>>]
  /\ UNCHANGED <<input, reader, nextMessageId>>
  /\ Unused

HeaderParse ==
  /\ wire.written
  /\ wire.fed = 0
  /\ wire' = [wire EXCEPT !.fed = 1, !.out = <<parseHeader(wire.frames[1])>>]
  /\ UNCHANGED <<input, reader, nextMessageId>>
  /\ Unused

NextHeader == HeaderWrite \/ HeaderParse

SpecHeader == InitHeader /\ [][NextHeader]_vars

\* ------------------------------------------------------------ connection attempts
\* The runs of a caller that connects and disconnects at will and sends nothing,
\* with sockets that open, fail at any stage or are closed by the caller, when
\* every queued job runs, the caller's continuations end or yield, a failed
\* socket gets its close event, and the socket of the attempt in flight gets its
\* open or its error event.
InitConnect == InitWith(0, 0, {TRUE}, FALSE)

NextConnect ==
  \/ UserConnect
  \/ UserDisconnect
  \/ UserYield
  \/ UserDone
  \/ AdoptJob
  \/ ConnectJob
  \/ ThenJob
  \/ JoinJob
  \/ \E i \in Socks : SocketOpen(i)
  \/ \E i \in Socks : SocketError(i)
  \/ \E i \in Socks : SocketClose(i)
  \/ \E h \in Handles : TimerFire(h)

\* The socket of the attempt in flight opens or fails.
AttemptEnds ==
  \E i \in Socks :
    /\ i = connectionPromise
    /\ prom[i].st = "pending"
    /\ SocketOpen(i) \/ SocketError(i)

\* The close event of a failed socket, which follows its error event.
FailedCloses == \E i \in Socks : sock[i].st = "ERRORED" /\ SocketClose(i)

FairConnect ==
  /\ InitConnect /\ [][NextConnect]_vars
  /\ WF_vars(AdoptJob)
  /\ WF_vars(ConnectJob)
  /\ WF_vars(ThenJob)
  /\ WF_vars(JoinJob)
  /\ WF_vars(UserDone \/ UserYield)
  /\ WF_vars(FailedCloses)
  /\ SF_vars(AttemptEnds)

\* ------------------------------------------------------------ the claims
Pos(q, m) == CHOOSE i \in 1..Len(q) : q[i] = m

\* C1 (as claimed): the messages send() accepted while the session was not Open
\* are handed to the transport in the order in which they were submitted.
C1_QueueFidelity ==
  \A i, j \in 1..Len(sent) :
    (i < j /\ sent[i] \in hist.notOpen /\ sent[j] \in hist.notOpen) => sent[i] < sent[j]

\* C2 (as claimed): every message that was in the queue when the latest flush began
\* is handed to the transport before any message submitted after that flush began.
C2_FlushBeforeLater ==
  \A x \in Range(sent) :
    (hist.flushMark > 0 /\ x >= hist.flushMark) =>
      \A m \in hist.flushSet : m \in Range(sent) /\ Pos(sent, m) < Pos(sent, x)

\* C3: every message passed to send() is handed to the transport, or in the
\* outbound queue, or in the batch being flushed; a message whose transmission
\* failed during the flush in progress is back in the outbound queue.
C3_NoMessageLost ==
  /\ \A m \in 1..(nextMsg - 1) :
       m \in Range(sent) \cup Range(messageQueue) \cup Range(batch)
  /\ hist.flushFault # 0 => hist.flushFault \in Range(messageQueue)

\* a transmission failed during a flush, while later messages of the batch wait
C3_Witness ==
  /\ hist.flushFault # 0
  /\ batch # <<>>
  /\ connected(Cur)

InFlight == connectionPromise # 0

NoNewSocket == \A i \in Socks : sock[i].st = "FREE" => sock'[i].st = "FREE"

\* C4: while a connect() attempt is in flight no step (a connect() call of the
\* caller, of send() or of the timer included) creates a socket, at most one
\* attempt is pending and it is the one connect() holds, and a connect() call that
\* joined the attempt settles as the attempt did.
C4_SingleFlight ==
  /\ [](\A p \in Socks : prom[p].st = "pending" => connectionPromise = p)
  /\ [](~hist.joinDiffers)
  /\ [][InFlight => NoNewSocket]_vars

\* a second connect() call of the caller waits on the attempt in flight
C4_Witness ==
  \E p \in Socks :
    /\ connectionPromise = p
    /\ prom[p].st = "pending"
    /\ prom[p].joinSt = "registered"

Live == {i \in Socks : sock[i].st \in {"CONNECTING", "OPEN"}}

\* C5 (as claimed): at most one socket of the session is connecting or open.
C5_OneSocket == Cardinality(Live) <= 1

\* C6 (as claimed): between the return of disconnect() and the caller's next
\* connect() or send(), no reconnect timer is pending.
C6_NoReconnectAfterDisconnect ==
  hist.quiet => \A h \in Handles : timers[h] = 0

Scheduled ==
  /\ reconnectAttempts' = reconnectAttempts + 1
  /\ reconnectTimer' # 0
  /\ timers'[reconnectTimer'] # 0

\* C7: a close event schedules a reconnect exactly when the manual-disconnect flag
\* is not set, the close code is not 1000 and the attempt count is below 10.
C7_CloseSchedules ==
  [][\A i \in Socks :
       SocketClose(i) =>
         (Scheduled <=> (/\ ~manuallyDisconnected
                         /\ sock[i].code # 1000
                         /\ reconnectAttempts < 10))]_vars

\* a close event has scheduled a reconnect
C7_Witness ==
  /\ reconnectTimer # 0
  /\ timers[reconnectTimer] # 0
  /\ reconnectAttempts >= 1
  /\ ~manuallyDisconnected

NoTimer == \A h \in Handles : timers[h] = 0

Idle == ws = 0 /\ NoTimer /\ connectionPromise = 0

Exhausted == reconnectAttempts = 10 /\ Idle

NoNewTimer == \A h \in Handles : timers[h] = 0 => timers'[h] = 0

\* C8 (as claimed): the attempt count never exceeds 10, at 10 no step schedules a
\* reconnect timer, and the exhausted session stays without socket, timer and
\* attempt in flight until the caller invokes connect().
C8_Original ==
  /\ [](reconnectAttempts <= 10)
  /\ [][reconnectAttempts = 10 => NoNewTimer]_vars
  /\ [][(Exhausted /\ ~UserConnect) => Idle']_vars

\* C8 (amended): ... until the caller invokes connect() or send().
C8_AttemptsCapped ==
  /\ [](reconnectAttempts <= 10)
  /\ [][reconnectAttempts = 10 => NoNewTimer]_vars
  /\ [][(Exhausted /\ ~UserConnect /\ ~UserSend) => Idle']_vars

\* the attempts are used up and the last one has failed
C8_Witness == Exhausted /\ ~manuallyDisconnected /\ mq = <<>>

ExpectedDelay(k) ==
  CASE k = 1 -> 1000
    [] k = 2 -> 2000
    [] k = 3 -> 4000
    [] k = 4 -> 8000
    [] k = 5 -> 16000
    [] OTHER -> 30000

\* C9: the k-th reconnect scheduled since the last successful open waits
\* min(1000 * 2^(k-1), 30000) ms; the third one 4000 ms.
C9_BackoffDelay ==
  [][reconnectAttempts' = reconnectAttempts + 1 =>
       /\ reconnectAttempts' \in 1..10
       /\ reconnectTimer' # 0
       /\ timers'[reconnectTimer'] = ExpectedDelay(reconnectAttempts')
       /\ (reconnectAttempts = 2 => timers'[reconnectTimer'] = 4000)]_vars

\* the reconnect scheduled after two failed attempts is pending
C9_Witness ==
  /\ reconnectAttempts = 3
  /\ reconnectTimer # 0
  /\ timers[reconnectTimer] = 4000

\* C10: between two successful opens the delays of the reconnects scheduled one
\* after the other never decrease and never exceed 30000 ms.
C10_BackoffMonotone ==
  [][reconnectAttempts' = reconnectAttempts + 1 =>
       /\ timers'[reconnectTimer'] >= hist.lastDelay
       /\ timers'[reconnectTimer'] <= 30000
       /\ hist.lastDelay' = timers'[reconnectTimer']]_vars

\* the delay has reached the cap and another reconnect is scheduled at the cap
C10_Witness ==
  /\ reconnectAttempts = 7
  /\ reconnectTimer # 0
  /\ timers[reconnectTimer] = 30000
  /\ hist.lastDelay = 30000

Pending == {h \in Handles : timers[h] # 0}

\* C11: at most one reconnect timer is pending, it is the one the session holds,
\* and the timer that fires is the one the session holds (never one that was
\* cancelled or superseded).
C11_OneTimer ==
  /\ [](Cardinality(Pending) <= 1)
  /\ [](\A h \in Pending : reconnectTimer = h)
  /\ [][\A h \in Handles : TimerFire(h) => reconnectTimer = h]_vars

\* a reconnect was scheduled while a timer was pending: the pending one replaced it
C11_Witness ==
  /\ hist.superseded
  /\ Cardinality(Pending) = 1
  /\ reconnectAttempts >= 2

\* the caller's send() took the path on which transmission fails (f) or not
Sends(f) ==
  /\ UserSend
  /\ f \in FailChoices
  /\ sent' = send(Cur, nextMsg, f).sent
  /\ messageQueue' = send(Cur, nextMsg, f).messageQueue
  /\ faults' = send(Cur, nextMsg, f).faults

Created == {i \in Socks : sock[i].st = "FREE" /\ sock'[i].st # "FREE"}

\* C13: send() while the session is not Open hands nothing to the transport, puts
\* the message at the tail of the outbound queue and reports "queued"; with
\* auto-connect on, an attempt is in flight when it returns (started by this call
\* on a new socket unless one was in flight already), with auto-connect off the
\* call starts none and touches no socket.
C13_SendWhileNotOpen ==
  [][(UserSend /\ ~connected(Cur)) =>
       /\ sent' = sent
       /\ messageQueue' = Append(messageQueue, nextMsg)
       /\ faults' = faults
       /\ \A f \in BOOLEAN : sendReports(Cur, nextMsg, f) = "queued"
       /\ autoConnect =>
            /\ connectionPromise' # 0
            /\ prom'[connectionPromise'].st = "pending"
            /\ ~connected(Cur)'
            /\ IF connectionPromise # 0
               THEN Created = {} /\ connectionPromise' = connectionPromise
               ELSE Created = {ws'} /\ connectionPromise' = ws'
                    /\ sock'[ws'].st = "CONNECTING"
       /\ ~autoConnect =>
            /\ Created = {}
            /\ UNCHANGED <<ws, sock, prom, connectionPromise, manuallyDisconnected>>]_vars

\* a send() on the idle session with auto-connect on has queued its message and
\* started an attempt nobody waits for
C13_Witness ==
  /\ autoConnect
  /\ messageQueue = <<1>>
  /\ sent = <<>>
  /\ nextMsg = 2
  /\ connectionPromise # 0
  /\ ws = connectionPromise
  /\ sock[ws].st = "CONNECTING"
  /\ ~prom[connectionPromise].waiter
  /\ reconnectAttempts = 0

\* C14: send() while Open reports "sent" exactly when the message was handed to
\* the transport; when transmission fails the message goes to the tail of the
\* outbound queue, send() reports "queued", and socket, attempt, timer and flags
\* stay as they were.
C14_SendWhileOpen ==
  [][\A f \in BOOLEAN :
       (Sends(f) /\ connected(Cur)) =>
         /\ sendReports(Cur, nextMsg, f) = (IF f THEN "queued" ELSE "sent")
         /\ ~f => sent' = Append(sent, nextMsg) /\ messageQueue' = messageQueue
         /\ f => sent' = sent /\ messageQueue' = Append(messageQueue, nextMsg)
         /\ UNCHANGED <<ws, sock, prom, connectionPromise, manuallyDisconnected,
                        reconnectAttempts, reconnectDelay, reconnectTimer, timers,
                        mq, batch>>]_vars

\* two transmissions failed on the open socket: the second message was queued
\* behind the first
C14_Witness ==
  /\ connected(Cur)
  /\ faults = 2
  /\ messageQueue = <<1, 2>>
  /\ sent = <<>>

\* C18: disconnect() sets the manual-disconnect flag, cancels the pending reconnect
\* timer, calls close(1000) on a socket that is connecting or open and clears the
\* socket reference; applied to its own result it changes nothing.
C18_Disconnect ==
  /\ [](disconnect(disconnect(Cur)) = disconnect(Cur))
  /\ [][UserDisconnect =>
          /\ manuallyDisconnected'
          /\ reconnectTimer' = 0
          /\ \A h \in Handles : timers'[h] = 0
          /\ ws' = 0
          /\ \A i \in Socks :
               sock'[i] = IF i = ws /\ sock[i].st \in {"CONNECTING", "OPEN"}
                          THEN wsClose(sock[i], 1000) ELSE sock[i]
          /\ UNCHANGED <<reconnectAttempts, reconnectDelay, connectionPromise,
                         messageQueue, prom, mq, batch, sent, faults>>]_vars

\* disconnect() has closed an open socket in the middle of a reconnect cycle
C18_Witness ==
  /\ manuallyDisconnected
  /\ ws = 0
  /\ \E i \in Socks : sock[i] = [st |-> "CLOSING", code |-> 1000]
  /\ reconnectAttempts > 0
  /\ NoTimer
  /\ connectionPromise = 0

TimerCreated == \E h \in Handles : timers[h] = 0 /\ timers'[h] # 0

\* C19: a socket error event rejects the attempt's promise if it is pending and
\* changes nothing else of the session: no timer, attempt count, queue, flag or
\* socket reference; a step that creates a reconnect timer is a close event.
C19_ErrorOnlyRejects ==
  /\ [][\A i \in Socks :
          SocketError(i) =>
            /\ UNCHANGED <<ws, reconnectAttempts, reconnectDelay, reconnectTimer,
                           timers, manuallyDisconnected, connectionPromise,
                           messageQueue, batch, sent, faults>>
            /\ prom[i].st = "pending" => prom'[i].st = "rejected"
            /\ prom[i].st # "pending" => prom' = prom /\ mq' = mq]_vars
  /\ [][TimerCreated => \E i \in Socks : SocketClose(i)]_vars

\* the error event of a connecting socket has rejected the attempt in flight
C19_Witness ==
  \E i \in Socks :
    /\ sock[i].st = "ERRORED"
    /\ connectionPromise = i
    /\ prom[i].st = "rejected"
    /\ NoTimer

Decoded == wire.written /\ wire.fed = Len(wire.frames) /\ ~hasMessages(reader)

\* C20 (as claimed): once all frames of write(m) are pushed into a fresh decoder
\* and the decoder is polled empty, it has yielded exactly one message, with m's
\* type and payload, and with m's id when m carried one.
C20_RoundTrip ==
  Decoded =>
    /\ Len(wire.out) = 1
    /\ wire.out[1].type = input.type
    /\ wire.out[1].payload = input.payload
    /\ input.hasId => wire.out[1].id = input.id

\* The serialized payload of the message given to the encoder (the payloads of
\* these runs are absent or truthy), the payload of the k-th frame a fresh
\* encoder writes for it, and the header fields of the k-th frame written.
Serialized == IF input.payload = "absent" THEN <<>> ELSE JsonText(input.payload)

FramePayload(k) ==
  LET frame == write(1, input).frames[k] IN SubSeq(frame, HeaderSize + 1, Len(frame))
FrameFlags(k) == wire.frames[k][2] * 256 + wire.frames[k][3]
FrameId(k) ==
  wire.frames[k][4] * 16777216 + wire.frames[k][5] * 65536
    + wire.frames[k][6] * 256 + wire.frames[k][7]
FrameType(k) == wire.frames[k][8]
FrameLength(k) == wire.frames[k][9] * 256 + wire.frames[k][10]

\* C21: a serialized payload of N bytes is written as one frame when N <= 65535
\* and as ceil(N / 65535) frames otherwise; every frame but the last carries 65535
\* payload bytes, the frames' payloads are the consecutive slices of the payload,
\* each header's payloadLength is its slice's size, and the frames decoded in
\* order give back one message with the payload, type and id.
C21_Fragmentation ==
  LET N == Len(Serialized)
      n == Len(wire.frames)
  IN /\ wire.written =>
          /\ n = IF N <= 65535 THEN 1 ELSE (N + 65534) \div 65535
          /\ \A k \in 1..n :
               /\ k < n => Len(FramePayload(k)) = 65535
               /\ FramePayload(k) = SubSeq(Serialized, (k - 1) * 65535 + 1, Min(k * 65535, N))
               /\ FrameLength(k) = Len(FramePayload(k))
     /\ Decoded =>
          /\ Len(wire.out) = 1
          /\ wire.out[1].payload = input.payload
          /\ wire.out[1].type = input.type
          /\ wire.out[1].id = IF input.hasId THEN input.id ELSE 1

C21_Witness ==
  /\ Decoded
  /\ Len(Serialized) = 150000
  /\ input.type = 100
  /\ [k \in 1..Len(wire.frames) |-> FrameLength(k)] = <<65535, 65535, 18930>>
  /\ wire.out = <<[id |-> 300, type |-> 100, payload |-> "s150000"]>>

\* C22: write() returns at least one frame; the first frame and no other has the
\* First flag, the last frame and no other has the Last flag (so the frames
\* between have neither and a single frame has both), and all frames carry the
\* message's id and type.
C22_FrameFlags ==
  wire.written =>
    LET n == Len(wire.frames)
    IN /\ n >= 1
       /\ \A k \in 1..n :
            /\ FrameFlags(k) = (IF k = 1 THEN 1 ELSE 0) + (IF k = n THEN 2 ELSE 0)
            /\ FrameId(k) = FrameId(1)
            /\ FrameType(k) = input.type
       /\ input.hasId => FrameId(1) = input.id

C22_Witness ==
  /\ wire.written
  /\ Len(wire.frames) = 3
  /\ [k \in 1..3 |-> FrameFlags(k)] = <<1, 0, 2>>
  /\ ~input.hasId

\* The frames of the stream that lie wholly within its first n bytes.
RECURSIVE Lengths(_)
Lengths(frames) == IF frames = <<>> THEN 0 ELSE Len(Head(frames)) + Lengths(Tail(frames))

Arrived(n) ==
  LET fs == StreamFrames(input)
      k == CHOOSE k \in 0..Len(fs) :
             /\ Lengths(SubSeq(fs, 1, k)) <= n
             /\ k < Len(fs) => Lengths(SubSeq(fs, 1, k + 1)) > n
  IN SubSeq(fs, 1, k)

\* C23: whatever the chunks, the messages decoded so far (polled or ready) and
\* the pending reassemblies are those that one push of the frames that have
\* wholly arrived gives, no push throws, and the bytes of the frame that has
\* partly arrived are all still buffered; so at the end of the stream the
\* messages are those of one push of the whole stream.
C23_Streaming ==
  LET once == pushRaw(FreshRaw, Concat(Arrived(wire.fed))).r
  IN /\ wire.out \o reader.messages = once.messages
     /\ reader.pending = once.pending
     /\ View(reader) = SubSeq(Stream, Lengths(Arrived(wire.fed)) + 1, wire.fed)
     /\ ~wire.written

\* A multi-frame message has been decoded and polled, and the header of the next
\* frame is partly buffered.
C23_Witness ==
  /\ input = "parts"
  /\ Len(wire.out) = 1
  /\ reader.length > 0
  /\ reader.length < 10

\* The flags, id and version a frame carries.
HasFirst(f) == (f[3] % 2) = 1
HasLast(f) == ((f[3] \div 2) % 2) = 1
IdOf(f) == f[4] * 16777216 + f[5] * 65536 + f[6] * 256 + f[7]

\* A frame without the First flag whose id no frame of the stream opens.
Orphan(f) ==
  /\ ~HasFirst(f)
  /\ \A k \in 1..Len(StreamFrames(input)) :
       ~(HasFirst(StreamFrames(input)[k]) /\ IdOf(StreamFrames(input)[k]) = IdOf(f))

WithoutOrphans(frames) == SelectSeq(frames, LAMBDA f : ~Orphan(f))

DecodedIds == [k \in 1..Len(wire.out \o reader.messages) |-> (wire.out \o reader.messages)[k].id]

\* C24: frames without First whose id has no pending entry raise nothing, yield
\* no message and leave no pending entry, and the messages and pending entries
\* are those of the stream without them.
C24_OrphanDiscarded ==
  LET clean == pushRaw(FreshRaw, Concat(WithoutOrphans(Arrived(wire.fed))))
  IN /\ ~wire.written
     /\ ~clean.threw
     /\ wire.out \o reader.messages = clean.r.messages
     /\ reader.pending = clean.r.pending
     /\ \A k \in 1..Len(StreamFrames(input)) :
          Orphan(StreamFrames(input)[k]) =>
            /\ IdOf(StreamFrames(input)[k]) \notin DOMAIN reader.pending
            /\ \A j \in 1..Len(DecodedIds) : DecodedIds[j] # IdOf(StreamFrames(input)[k])

C24_Witness ==
  /\ input = "orphans"
  /\ wire.fed = Len(Stream)
  /\ DecodedIds = <<1, 2, 3>>
  /\ Len(wire.out) = 3

\* C25 (as claimed): a message any of whose frames carries a version other than 1
\* is never yielded.
C25_VersionDrops ==
  \A k \in 1..Len(Arrived(wire.fed)) :
    Arrived(wire.fed)[k][1] # 1 =>
      \A j \in 1..Len(DecodedIds) : DecodedIds[j] # IdOf(Arrived(wire.fed)[k])

\* The ids of the messages the frames complete, in the order of the completing
\* frames: a frame with Last that is not an orphan and has version 1.
Completions(frames) ==
  LET done == SelectSeq(frames, LAMBDA f : HasLast(f) /\ ~Orphan(f) /\ f[1] = 1)
  IN [k \in 1..Len(done) |-> IdOf(done[k])]

\* C29: the messages polled, followed by those still ready, are the completed
\* messages in the order of their completing frames; a poll takes the head of
\* the ready-queue, and finds nothing exactly when the queue is empty, when it
\* changes nothing.
C29_PollFifo ==
  /\ [](DecodedIds = Completions(Arrived(wire.fed)))
  /\ [][StreamPoll =>
         /\ wire'.none <=> reader.messages = <<>>
         /\ hasMessages(reader) <=> reader.messages # <<>>
         /\ reader.messages # <<>> =>
              /\ wire'.out = Append(wire.out, Head(reader.messages))
              /\ reader'.messages = Tail(reader.messages)
         /\ reader.messages = <<>> => reader' = reader /\ wire'.out = wire.out]_vars

\* Two reassemblies were interleaved; the one whose Last frame came first was
\* polled first, and a later poll found nothing.
C29_Witness ==
  /\ input = "interleaved"
  /\ [k \in 1..Len(wire.out) |-> wire.out[k].id] = <<2, 1>>
  /\ wire.none

\* The ids the encoder has assigned since its last reset, in the order of writing.
RECURSIVE AssignedIds(_)
AssignedIds(log) ==
  IF log = <<>> THEN <<>>
  ELSE IF Head(log).own THEN AssignedIds(Tail(log))
       ELSE <<Head(log).id>> \o AssignedIds(Tail(log))

\* C28: the ids the encoder assigns between two resets are 1, 2, 3, ... in the
\* order of writing, and the counter is one more than their number; writing a
\* message without an id puts the counter on its frames and raises it by one;
\* writing a message with an id of its own, 0 included, puts that id on its frames
\* and leaves the counter as it is; reset() sets the counter to 1, and no write
\* ever lowers it.
C28_EncoderCounter ==
  /\ [](/\ AssignedIds(wire.out) = [k \in 1..(nextMessageId - 1) |-> k]
        /\ nextMessageId >= 1)
  /\ [][LET wrote == wire'.fed > wire.fed
             last == wire'.out[Len(wire'.out)]
         IN /\ (wrote /\ ~input'.hasId) =>
                  (last.id = nextMessageId /\ nextMessageId' = nextMessageId + 1)
            /\ (wrote /\ input'.hasId) =>
                  (last.id = input'.id /\ nextMessageId' = nextMessageId)
            /\ (nextMessageId' < nextMessageId) => (~wrote /\ nextMessageId' = 1)
            /\ ~wrote => (nextMessageId' = 1)]_vars

\* Two ids have been assigned, a message with id 0 of its own has just been
\* written, and the counter stands at 3.
C28_Witness ==
  /\ input.hasId /\ input.id = 0 /\ wire.written
  /\ wire.out[Len(wire.out)] = [id |-> 0, own |-> TRUE]
  /\ AssignedIds(wire.out) = <<1, 2>>
  /\ nextMessageId = 3

\* C27: between two resets of the encoder, no two distinct messages handed to the
\* socket carry the same id, whichever of them carry an id of the caller's and
\* whichever were re-sent after a failed transmission.
C27_UniqueIds ==
  \A a, b \in 1..Len(hist.ids) :
    hist.ids[a].m # hist.ids[b].m => hist.ids[a].id # hist.ids[b].id

\* C26: once a chunk with a valid message, a message whose payload does not parse
\* and another valid message has been received, the message that does not parse
\* is never yielded, both valid messages have been decoded, and each of them has
\* been handed to the handler, or is in the ready queue of a processing pass in
\* progress, or was discarded by a later socket open.
C26_OnlyOwnMessage ==
  \A e \in 1..inb.events :
    Was(inb.completed, 10 * e + 1) =>
      /\ ~Was(inb.completed, 10 * e + 2)
      /\ \A id \in {10 * e + 1, 10 * e + 3} :
           /\ Was(inb.completed, id)
           /\ \/ Was(inb.delivered, id)
              \/ id \in inb.dropped
              \/ Ready(id) /\ processingMessages

\* C30: no step pushes into the decoder the bytes of a message event that was
\* received before the latest open event, and after an open event the decoder
\* holds no byte, no pending entry and no ready message until the next push.
C30_NoStaleInbound ==
  [][/\ \A e \in inb.old' : Was(inb.pushed', e) => Was(inb.pushed, e)
     /\ inb.old' # inb.old => reader' = FreshReader]_vars

\* The type code a frame carries, and the frames without First whose type code
\* is not that of the First frame of their message.
TypeOf(f) == f[8]

Mismatched(f) ==
  /\ ~HasFirst(f)
  /\ \E k \in 1..Len(StreamFrames(input)) :
       /\ HasFirst(StreamFrames(input)[k])
       /\ IdOf(StreamFrames(input)[k]) = IdOf(f)
       /\ TypeOf(StreamFrames(input)[k]) # TypeOf(f)

WithoutMismatched(frames) == SelectSeq(frames, LAMBDA f : ~Mismatched(f))

\* C31: a frame without First whose id has a pending entry of another type, with
\* or without Last, raises nothing and leaves every pending entry as it was: the
\* messages and the pending entries (type, chunks, total length) are at every
\* point those of the stream without such frames, so that the matching Last frame
\* completes the message from the matching chunks before and after.
C31_TypeMismatch ==
  LET clean == pushRaw(FreshRaw, Concat(WithoutMismatched(Arrived(wire.fed))))
  IN /\ ~wire.written
     /\ ~clean.threw
     /\ wire.out \o reader.messages = clean.r.messages
     /\ reader.pending = clean.r.pending

\* The two mismatching frames of message 1, one of them with Last, have been
\* pushed one push each while two entries were pending, and message 1 was later
\* completed as "a" from the chunks before and after them.
C31_Witness ==
  /\ input = "mismatch"
  /\ wire.fed = Len(Stream)
  /\ Len(wire.out) = 2
  /\ wire.out[1] = [id |-> 1, type |-> 3, payload |-> "str"]
  /\ wire.out[2] = [id |-> 2, type |-> 3, payload |-> "obj"]

\* C32 (as claimed): the parsed header fields are the unsigned values the encoder
\* wrote, over the full width of every field; the parsed message id is the
\* non-negative number hi * 65536 + lo that was written.
C32_HeaderInverse ==
  wire.fed = 1 /\ Len(wire.out) = 1 /\ input \in HeaderInputs =>
    LET header == wire.out[1]
    IN /\ header.version = version
       /\ header.flags = input.flags
       /\ header.typeCode = input.type
       /\ header.payloadLength = input.payloadLength
       /\ header.isFirst = (input.flags % 2 = 1)
       /\ header.isLast = ((input.flags \div 2) % 2 = 1)
       /\ header.messageId >= 0
       /\ header.messageId \div 65536 = input.id.hi
       /\ header.messageId % 65536 = input.id.lo

\* The bytes of the frames the decoder has taken off its buffer.
Consumed == Lengths(Arrived(wire.fed))

\* C33: after every push, whatever the chunk sizes, the read offset and the
\* valid length are not negative and end within the buffer, the valid region
\* holds the bytes pushed so far without those of the consumed frames, in the
\* order of arrival, and no chunk was put past the end of the buffer (no push has
\* thrown).
C33_BufferInvariant ==
  /\ reader.offset >= 0
  /\ reader.length >= 0
  /\ reader.offset + reader.length <= Len(reader.buf)
  /\ reader.length = wire.fed - Consumed
  /\ \A i \in 1..reader.length : reader.buf[reader.offset + i] = Stream[Consumed + i]
  /\ ~wire.written

\* The first 610-byte frame was consumed at offset 0 of the 1024-byte buffer, 90
\* unread bytes stood behind it, and the next push moved them to the start of the
\* buffer and put 250 more behind them.
C33_Witness ==
  /\ input = "big"
  /\ wire.fed = 950
  /\ Consumed = 610
  /\ Len(reader.buf) = 1024
  /\ reader.offset = 0
  /\ reader.length = 340

\* C34 (as claimed): the close event of a socket that is not the session's
\* current socket, while there is a current one, leaves the reference to the
\* current socket and its connected status as they are and schedules no
\* reconnect.
C34_StaleClose ==
  [][\A i \in Socks :
       (SocketClose(i) /\ ws # 0 /\ ws # i) =>
         /\ ws' = Moved(ws, i)
         /\ connected(Cur)' = connected(Cur)
         /\ reconnectAttempts' = reconnectAttempts
         /\ reconnectTimer' = reconnectTimer
         /\ timers' = timers]_vars

\* A connect() call is waiting: the one that started the attempt, or one that
\* joined it.
Waiting == \E p \in Socks : prom[p].waiter \/ prom[p].joinSt # "none"

\* C35: when the socket of the attempt in flight eventually opens or fails
\* (a disconnect() during the attempt makes it fail), the in-flight marker is
\* eventually released and every waiting connect() call is eventually resumed;
\* and a connect() call made with the marker released and no open socket starts
\* a new attempt, with a new socket and a pending promise of its own.
C35_ConnectSettles ==
  /\ (connectionPromise # 0) ~> (connectionPromise = 0)
  /\ Waiting ~> ~Waiting
  /\ [][(UserConnect /\ connectionPromise = 0 /\ ~connected(Cur)) =>
          /\ connectionPromise' # 0
          /\ ws' = connectionPromise'
          /\ sock'[ws'].st = "CONNECTING"
          /\ prom'[connectionPromise'].st = "pending"]_vars

\* disconnect() was called while the attempt was in flight: the marker is still
\* set, the session has let go of the socket, and the socket is failing.
C35_Witness ==
  /\ connectionPromise # 0
  /\ prom[connectionPromise].st = "pending"
  /\ prom[connectionPromise].waiter
  /\ manuallyDisconnected
  /\ ws = 0
  /\ sock[connectionPromise].st = "ABORTING"

====
